---- MODULE Spec2Model ----
(***************************************************************************)
(* A model of the audio streaming pipeline of splinter7/audio-streaming:   *)
(*   - the signaling endpoint and the chunk sender of server/index.js,     *)
(*   - the connection lifecycle manager useWebRTCConnection,               *)
(*   - its message handlers handleJsonMessage and handleBinaryMessage,     *)
(*   - the progressive decoder useAudioDecoder,                            *)
(*   - the playback coordinator: useAudioPlayback, useAudioStreamHandlers, *)
(*     useAutoStartPlayback and useBufferReplacement.                      *)
(* Each component has its own specification (SpecSlice, SpecSender,        *)
(* SpecSenderFair, SpecConn, SpecMsg, SpecDec, SpecPlay); the variables of *)
(* the others keep their initial value under it.                           *)
(***************************************************************************)
EXTENDS Integers, Sequences, FiniteSets, TLC

VARIABLES
    \* ---- chunk slicing, server/index.js 111, 147-149 ----
    sliceLen,        \* audioBuffer.length of the asset being sliced
    sliceSize,       \* the chunk size used
    sliceOut,        \* the chunks cut so far, in order
    \* ---- server/index.js ----
    assetState,      \* "ok" | "missing" | "unreadable": audio/sample.mp3 on disk
    assetLen,        \* its length in bytes
    sess,            \* the sessions created by POST /api/offer, in creation order
    peerConnections, \* the Map connectionId -> peer connection (0: no entry)
    crashed,         \* an exception escaped a timer callback: the process is gone
    reqCount,        \* number of POST /api/offer requests handled
    lastReq,         \* the body of the latest request
    lastResp,        \* the response to it
    lastEvent,       \* the handler that ran last, its session, the gauge it read
    concurrent,      \* the scenario: clients may connect while a session is live
    \* ---- useWebRTCConnection ----
    hook,            \* the hook's state and refs
    transports,      \* the peer connections connect() created, with their channel
    onErrorCall,     \* the message the last call handed to onError ("": it made no call)
    \* ---- dataChannel.onmessage, utils/webrtcHandlers ----
    msgChannel,      \* readyState of the channel the messages arrive on
    delivered,       \* the binary payloads onBinaryMessage took, in order
    lastMessage,     \* the latest message event and what its handler did
    \* ---- useAudioDecoder ----
    decoder,         \* the hook's refs and state, and audioContextRef
    awaiting,        \* the tryDecode calls suspended at an await, oldest first
    decCalls,        \* the calls made so far, and the chunks handed over since the last reset
    decEvent,        \* the call or continuation that ran last and what it returned
    \* ---- useAudioPlayback, useAudioStreamHandlers and the playback effects ----
    player,          \* the coordinator's state and refs, and what it is rendered with
    sources,         \* the source nodes createAudioSource made: stopped or not
    playCalls,       \* the handlePlay and play calls suspended at ensureContext
    playEvent        \* the handler that ran last and what it did

sliceVars  == <<sliceLen, sliceSize, sliceOut>>
serverVars == <<assetState, assetLen, sess, peerConnections, crashed,
                reqCount, lastReq, lastResp, lastEvent, concurrent>>
connVars   == <<hook, transports, onErrorCall>>
msgVars    == <<msgChannel, delivered, lastMessage>>
decVars    == <<decoder, awaiting, decCalls, decEvent>>
playVars   == <<player, sources, playCalls, playEvent>>
vars == <<sliceVars, serverVars, connVars, msgVars, decVars, playVars>>

-----------------------------------------------------------------------------
(* Bounds of the model *)

MaxSliceLen == 8
MaxSliceSize == 3
MaxSessions == 1
MaxConcurrent == 2      \* sessions where clients connect while one is live
MaxRequests == 2
MaxTransports == 2
MaxOrphans == 1         \* pending reconnect timers that reconnectTimeoutRef no longer names

-----------------------------------------------------------------------------
(* Program constants *)

CHUNK_SIZE == 64 * 1024
HIGH_WATER_MARK == 256 * 1024

Min(a, b) == IF a < b THEN a ELSE b
Max(a, b) == IF a > b THEN a ELSE b

-----------------------------------------------------------------------------
(* Chunk slicing *)

\* Math.ceil(a / b) for non-negative integers a and b > 0
Ceil(a, b) == IF a % b = 0 THEN a \div b ELSE (a \div b) + 1

TotalChunksBug(len, size) == len \div size
\* const totalChunks = Math.ceil(audioBuffer.length / CHUNK_SIZE)
TotalChunks(len, size) == Ceil(len, size)

\* const start = chunkIndex * CHUNK_SIZE
ChunkStart(i, size) == i * size

ChunkEndBug(start, size, len) == start + size
\* const end = Math.min(start + CHUNK_SIZE, audioBuffer.length)
ChunkEnd(start, size, len) == Min(start + size, len)

\* Buffer.prototype.slice(start, end) of a buffer of len bytes: the bytes at
\* offsets start .. end-1, both clamped to the buffer. The asset is immutable,
\* so a slice is represented by the byte range it holds.
BufSlice(len, start, end) ==
    LET s == Min(Max(start, 0), len)
        e == Min(Max(end, 0), len)
    IN  [start |-> s, end |-> Max(s, e)]

\* lines 147-149 for one chunk index
ChunkAt(i, size, len) ==
    LET start == ChunkStart(i, size)
        end   == ChunkEnd(start, size, len)
    IN  BufSlice(len, start, end)

SlicePairs ==
    ((0..MaxSliceLen) \X (1..MaxSliceSize))
        \cup ({0, 1, CHUNK_SIZE - 1, CHUNK_SIZE, CHUNK_SIZE + 1,
               2 * CHUNK_SIZE, 200000} \X {CHUNK_SIZE})

SliceInit ==
    /\ \E p \in SlicePairs : sliceLen = p[1] /\ sliceSize = p[2]
    /\ sliceOut = <<>>

\* the sender's loop without pacing: cut the chunk at the cursor, advance it
SliceNextChunk ==
    /\ Len(sliceOut) < TotalChunks(sliceLen, sliceSize)
    /\ sliceOut' = Append(sliceOut, ChunkAt(Len(sliceOut), sliceSize, sliceLen))
    /\ UNCHANGED <<sliceLen, sliceSize>>
    /\ UNCHANGED <<serverVars, connVars, msgVars, decVars, playVars>>

-----------------------------------------------------------------------------
(* server/index.js: values *)

Undefined == "undefined"
\* JavaScript truthiness of an optional string
Truthy(v) == v \notin {Undefined, ""}

ClientIds  == {"client-1"}
Timestamps == {"1700000000000"}
ConnIds    == ClientIds \cup Timestamps

\* the offers a request body can carry; "sdp-bad" is a non-empty string that
\* setRemoteDescription rejects
\* defined = FALSE: the body has no offer at all
Offers ==
    [defined : {TRUE}, type : {Undefined, "offer"}, sdp : {Undefined, "sdp-ok", "sdp-bad"}]
        \cup {[defined |-> FALSE, type |-> Undefined, sdp |-> Undefined]}

AssetLengths == {0, CHUNK_SIZE, CHUNK_SIZE + 1, 200000}

\* the values dataChannel.bufferedAmount is read as
Gauges == {0, HIGH_WATER_MARK - 1, HIGH_WATER_MARK}

TerminalPc == {"disconnected", "failed", "closed"}

NoRequest ==
    [offer |-> [defined |-> FALSE, type |-> Undefined, sdp |-> Undefined],
     clientId |-> Undefined]
NoResponse == [status |-> 0]

\* the messages handed to dataChannel.send; ok = the call returned normally
MetadataMsg(len, n, ok) ==
    [type |-> "metadata", totalSize |-> len, totalChunks |-> n,
     chunkSize |-> CHUNK_SIZE, ok |-> ok]
ChunkMsg(i, chunk, ok) ==
    [type |-> "chunk", index |-> i, start |-> chunk.start, end |-> chunk.end, ok |-> ok]
CompleteMsg(ok) == [type |-> "complete", ok |-> ok]
ErrorMsg(text, ok) == [type |-> "error", message |-> text, ok |-> ok]

\* the session a valid offer creates (lines 62-88): a peer connection, and the
\* closure variables of its data channel
NewSession(id) ==
    [connectionId    |-> id,
     negotiated      |-> FALSE,     \* setRemoteDescription succeeded
     connectionState |-> "new",     \* peerConnection.connectionState
     readyState      |-> "none",    \* dataChannel.readyState ("none": no channel yet)
     opened          |-> FALSE,     \* the open event has been dispatched
     streamingActive |-> TRUE,
     chunkTimeoutId  |-> FALSE,     \* chunkTimeoutId is not null
     timerPending    |-> FALSE,     \* the timer it names has not fired yet
     audioLen        |-> 0,         \* audioBuffer.length
     totalChunks     |-> 0,
     chunkIndex      |-> 0,
     sent            |-> <<>>]      \* the calls of dataChannel.send, in order

SessionIds == 1..Len(sess)

-----------------------------------------------------------------------------
(* server/index.js: the data channel closure *)

\* dataChannel.send(msg)
Send(r, msg) == [r EXCEPT !.sent = Append(@, msg)]

\* if (chunkTimeoutId) { clearTimeout(chunkTimeoutId); chunkTimeoutId = null; }
ClearChunkTimeout(r) ==
    IF r.chunkTimeoutId
    THEN [r EXCEPT !.timerPending = FALSE, !.chunkTimeoutId = FALSE]
    ELSE r

\* chunkTimeoutId = setTimeout(sendChunk, 50)
ArmChunkTimeout(r) == [r EXCEPT !.timerPending = TRUE, !.chunkTimeoutId = TRUE]

\* lines 128-132
ShouldStop(r) ==
    \/ ~r.streamingActive
    \/ r.readyState # "open"
    \/ r.connectionState \in TerminalPc

BelowHighWaterBug(amount) == amount <= HIGH_WATER_MARK
\* line 152
BelowHighWater(amount) == amount < HIGH_WATER_MARK

\* lines 165-167
ArmNext(r) ==
    IF r.chunkIndex < r.totalChunks /\ r.streamingActive THEN ArmChunkTimeout(r) ELSE r

\* lines 153-161: send the chunk and advance the cursor; a throw stops the loop
SendChunkTrySkip(r, chunk, ok) ==
    IF ok
    THEN [s |-> [Send(r, ChunkMsg(r.chunkIndex, chunk, TRUE))
                    EXCEPT !.chunkIndex = @ + 2],
          returned |-> FALSE]
    ELSE [s |-> [Send(r, ChunkMsg(r.chunkIndex, chunk, FALSE))
                    EXCEPT !.streamingActive = FALSE],
          returned |-> TRUE]
SendChunkTry(r, chunk, ok) ==
    IF ok
    THEN [s |-> [Send(r, ChunkMsg(r.chunkIndex, chunk, TRUE))
                    EXCEPT !.chunkIndex = @ + 1],
          returned |-> FALSE]
    ELSE [s |-> [Send(r, ChunkMsg(r.chunkIndex, chunk, FALSE))
                    EXCEPT !.streamingActive = FALSE],
          returned |-> TRUE]

\* sendChunk (lines 126-168). amount is what bufferedAmount reads as, ok whether
\* the send it issues returns. thrown: an exception left sendChunk.
sendChunk(r, amount, ok) ==
    IF ShouldStop(r)
    THEN [s |-> ClearChunkTimeout(r), thrown |-> FALSE]
    ELSE IF r.chunkIndex >= r.totalChunks
    THEN IF ok
         THEN [s |-> [Send(r, CompleteMsg(TRUE)) EXCEPT !.streamingActive = FALSE],
               thrown |-> FALSE]
         ELSE [s |-> Send(r, CompleteMsg(FALSE)), thrown |-> TRUE]
    ELSE LET chunk == ChunkAt(r.chunkIndex, CHUNK_SIZE, r.audioLen)
         IN  IF BelowHighWater(amount)
             THEN LET t == SendChunkTry(r, chunk, ok)
                  IN  IF t.returned
                      THEN [s |-> t.s, thrown |-> FALSE]
                      ELSE [s |-> ArmNext(t.s), thrown |-> FALSE]
             ELSE [s |-> ArmNext(r), thrown |-> FALSE]

\* sendChunk gets as far as reading dataChannel.bufferedAmount (line 152)
ReadsGauge(r) == ~ShouldStop(r) /\ r.chunkIndex < r.totalChunks

\* dataChannel.close(): an open channel starts closing
CloseChannel(r) ==
    IF r.readyState = "open" THEN [r EXCEPT !.readyState = "closing"] ELSE r

\* the catch of onopen (lines 172-188)
OnOpenCatch(r, text, ok) ==
    CloseChannel(Send(ClearChunkTimeout([r EXCEPT !.streamingActive = FALSE]),
                      ErrorMsg(text, ok)))

OnOpenMissingStaysOpen(r, okA, okC) ==
    IF okA
    THEN Send(r, ErrorMsg("Audio file not found", TRUE))
    ELSE OnOpenCatch(Send(r, ErrorMsg("Audio file not found", FALSE)), "send failed", okC)
\* the file check of onopen (lines 99-108)
OnOpenMissing(r, okA, okC) ==
    IF okA
    THEN CloseChannel(Send(r, ErrorMsg("Audio file not found", TRUE)))
    ELSE OnOpenCatch(Send(r, ErrorMsg("Audio file not found", FALSE)), "send failed", okC)

\* onopen from readFileSync on (lines 110-171)
OnOpenStream(r, len, amount, okA, okB, okC) ==
    LET n  == TotalChunks(len, CHUNK_SIZE)
        r1 == [r EXCEPT !.audioLen = len, !.totalChunks = n]
    IN  IF ~okA
        THEN OnOpenCatch(Send(r1, MetadataMsg(len, n, FALSE)), "send failed", okC)
        ELSE LET r2  == [Send(r1, MetadataMsg(len, n, TRUE)) EXCEPT !.chunkIndex = 0]
                 res == sendChunk(r2, amount, okB)
             IN  IF res.thrown
                 THEN OnOpenCatch(res.s, "send failed", okC)
                 ELSE res.s

\* dataChannel.onopen (lines 91-189)
onopen(r, amount, okA, okB, okC) ==
    LET r0 == [r EXCEPT !.opened = TRUE]
    IN  CASE assetState = "missing"    -> OnOpenMissing(r0, okA, okC)
          [] assetState = "unreadable" -> OnOpenCatch(r0, "read failed", okC)
          [] OTHER                     -> OnOpenStream(r0, assetLen, amount, okA, okB, okC)

\* onopen reaches the first sendChunk call, and that call reads the gauge
OnOpenReadsGauge(r, okA) ==
    /\ assetState = "ok"
    /\ okA
    /\ TotalChunks(assetLen, CHUNK_SIZE) > 0
    /\ ~ShouldStop(r)

onerrorKeepsTimer(r) == [r EXCEPT !.streamingActive = FALSE]
\* dataChannel.onerror (lines 191-198)
onerror(r) == ClearChunkTimeout([r EXCEPT !.streamingActive = FALSE])

\* dataChannel.onstatechange (lines 211-220)
onstatechange(r) ==
    IF r.readyState # "open"
    THEN ClearChunkTimeout([r EXCEPT !.streamingActive = FALSE])
    ELSE r

\* dataChannel.onclose without the registry (lines 200-207)
onclose(r) ==
    [ClearChunkTimeout([r EXCEPT !.streamingActive = FALSE])
        EXCEPT !.connectionState = "closed"]

-----------------------------------------------------------------------------
(* server/index.js: the handlers as actions *)

SetSession(s, r) == sess' = [sess EXCEPT ![s] = r]

\* a server step leaves the other components alone
ServerOnly == UNCHANGED <<sliceVars, connVars, msgVars, decVars, playVars>>

NotRead == -1
Event(name, s, amount) == [name |-> name, s |-> s, amount |-> amount]

\* peerConnections.delete(connectionId)
RegistryDelete(id) == [peerConnections EXCEPT ![id] = 0]

OfferValidBug(offer) == offer.defined /\ Truthy(offer.type)
\* line 55, negated: offer && offer.type && offer.sdp
OfferValid(offer) == offer.defined /\ Truthy(offer.type) /\ Truthy(offer.sdp)

\* line 63
ConnectionId(clientId, now) == IF Truthy(clientId) THEN clientId ELSE now

\* new RTCSessionDescription(offer) / setRemoteDescription accept the SDP
SdpAccepted(offer) == offer.sdp = "sdp-ok"

\* lines 253-255 and 259
OfferResponse(offer) ==
    IF SdpAccepted(offer)
    THEN [status |-> 200, answer |-> [type |-> "answer", sdp |-> "sdp-answer"]]
    ELSE [status |-> 500, error |-> "setRemoteDescription failed"]

\* the session can do nothing more: it never got a remote description, or its
\* connection is closed, or failed before a channel arrived
SessionOver(r) ==
    \/ ~r.negotiated
    \/ r.connectionState = "closed"
    \/ r.connectionState = "failed" /\ r.readyState = "none"

\* app.post('/api/offer') (lines 51-261)
PostOffer ==
    /\ ~crashed
    /\ reqCount < MaxRequests
    /\ \E offer \in Offers, clientId \in ClientIds \cup {Undefined}, now \in Timestamps :
        /\ reqCount' = reqCount + 1
        /\ lastReq' = [offer |-> offer, clientId |-> clientId]
        /\ IF ~OfferValid(offer)
           THEN /\ lastResp' = [status |-> 400, error |-> "Invalid offer"]
                /\ UNCHANGED <<sess, peerConnections>>
           ELSE /\ IF concurrent THEN Len(sess) < MaxConcurrent
                   ELSE /\ Len(sess) < MaxSessions
                        /\ \A s \in SessionIds : SessionOver(sess[s])
                /\ LET id == ConnectionId(clientId, now)
                   IN  /\ sess' = Append(sess, [NewSession(id) EXCEPT
                                                  !.negotiated = SdpAccepted(offer)])
                       /\ peerConnections' =
                              [peerConnections EXCEPT ![id] = Len(sess) + 1]
                /\ lastResp' = OfferResponse(offer)
    /\ lastEvent' = Event("PostOffer", 0, NotRead)
    /\ UNCHANGED <<assetState, assetLen, crashed, concurrent>>
    /\ ServerOnly

\* the connection states the transport can move to on its own
NextPcStates(st) ==
    CASE st = "new"          -> {"connecting"}
      [] st = "connecting"   -> {"connected", "failed"}
      [] st = "connected"    -> {"disconnected", "failed"}
      [] st = "disconnected" -> {"connected", "failed"}
      [] OTHER               -> {}

\* the open event follows the datachannel event in the same task
Announcing(r) == r.readyState = "open" /\ ~r.opened

\* peerConnection.onconnectionstatechange (lines 71-79)
PcStateChange(s) ==
    /\ ~crashed
    /\ sess[s].negotiated
    /\ ~Announcing(sess[s])
    /\ \E st \in NextPcStates(sess[s].connectionState) :
        /\ SetSession(s, [sess[s] EXCEPT !.connectionState = st])
        /\ peerConnections' =
              IF st \in TerminalPc
              THEN RegistryDelete(sess[s].connectionId)
              ELSE peerConnections
    /\ lastEvent' = Event("PcStateChange", s, NotRead)
    /\ UNCHANGED <<assetState, assetLen, crashed,
                   reqCount, lastReq, lastResp, concurrent>>
    /\ ServerOnly

\* peerConnection.ondatachannel (lines 82-90): the client's channel arrives
OnDataChannel(s) ==
    /\ ~crashed
    /\ sess[s].negotiated
    /\ sess[s].connectionState = "connected"
    /\ sess[s].readyState = "none"
    /\ SetSession(s, [sess[s] EXCEPT !.readyState = "open",
                                     !.streamingActive = TRUE,
                                     !.chunkTimeoutId = FALSE])
    /\ lastEvent' = Event("OnDataChannel", s, NotRead)
    /\ UNCHANGED <<assetState, assetLen, peerConnections, crashed,
                   reqCount, lastReq, lastResp, concurrent>>
    /\ ServerOnly

\* the open event: dataChannel.onopen
OnOpen(s) ==
    /\ ~crashed
    /\ Announcing(sess[s])
    /\ \E amount \in Gauges, okA \in BOOLEAN, okB \in BOOLEAN, okC \in BOOLEAN :
        /\ SetSession(s, onopen(sess[s], amount, okA, okB, okC))
        /\ lastEvent' = Event("OnOpen", s,
                              IF OnOpenReadsGauge(sess[s], okA) THEN amount ELSE NotRead)
    /\ UNCHANGED <<assetState, assetLen, peerConnections, crashed,
                   reqCount, lastReq, lastResp, concurrent>>
    /\ ServerOnly

\* the pacing timer fires: sendChunk; an exception it throws is uncaught
TimerFiresWith(s, amount, ok) ==
    /\ ~crashed
    /\ sess[s].timerPending
    /\ LET r   == [sess[s] EXCEPT !.timerPending = FALSE]
           res == sendChunk(r, amount, ok)
       IN  /\ SetSession(s, res.s)
           /\ crashed' = res.thrown
           /\ lastEvent' = Event("TimerFires", s,
                                 IF ReadsGauge(r) THEN amount ELSE NotRead)
    /\ UNCHANGED <<assetState, assetLen, peerConnections,
                   reqCount, lastReq, lastResp, concurrent>>
    /\ ServerOnly

TimerFires(s) == \E amount \in Gauges, ok \in BOOLEAN : TimerFiresWith(s, amount, ok)

\* the error event: dataChannel.onerror
OnError(s) ==
    /\ ~crashed
    /\ sess[s].readyState = "open" /\ sess[s].opened
    /\ SetSession(s, onerror(sess[s]))
    /\ lastEvent' = Event("OnError", s, NotRead)
    /\ UNCHANGED <<assetState, assetLen, peerConnections, crashed,
                   reqCount, lastReq, lastResp, concurrent>>
    /\ ServerOnly

\* the peer or the transport starts closing the channel
ChannelClosing(s) ==
    /\ ~crashed
    /\ sess[s].readyState = "open" /\ sess[s].opened
    /\ SetSession(s, [sess[s] EXCEPT !.readyState = "closing"])
    /\ lastEvent' = Event("ChannelClosing", s, NotRead)
    /\ UNCHANGED <<assetState, assetLen, peerConnections, crashed,
                   reqCount, lastReq, lastResp, concurrent>>
    /\ ServerOnly

\* a statechange event, where the platform dispatches one: dataChannel.onstatechange
OnStateChange(s) ==
    /\ ~crashed
    /\ sess[s].readyState \in {"open", "closing", "closed"} /\ sess[s].opened
    /\ SetSession(s, onstatechange(sess[s]))
    /\ lastEvent' = Event("OnStateChange", s, NotRead)
    /\ UNCHANGED <<assetState, assetLen, peerConnections, crashed,
                   reqCount, lastReq, lastResp, concurrent>>
    /\ ServerOnly

\* the channel is closed and the close event is dispatched: dataChannel.onclose
OnClose(s) ==
    /\ ~crashed
    /\ sess[s].readyState \in {"open", "closing"} /\ sess[s].opened
    /\ SetSession(s, onclose([sess[s] EXCEPT !.readyState = "closed"]))
    /\ peerConnections' = RegistryDelete(sess[s].connectionId)
    /\ lastEvent' = Event("OnClose", s, NotRead)
    /\ UNCHANGED <<assetState, assetLen, crashed,
                   reqCount, lastReq, lastResp, concurrent>>
    /\ ServerOnly

ServerNext ==
    \/ PostOffer
    \/ \E s \in SessionIds : PcStateChange(s)
    \/ \E s \in SessionIds : OnDataChannel(s)
    \/ \E s \in SessionIds : OnOpen(s)
    \/ \E s \in SessionIds : TimerFires(s)
    \/ \E s \in SessionIds : OnError(s)
    \/ \E s \in SessionIds : ChannelClosing(s)
    \/ \E s \in SessionIds : OnStateChange(s)
    \/ \E s \in SessionIds : OnClose(s)

-----------------------------------------------------------------------------
(* useWebRTCConnection: state *)

\* config.maxReconnectAttempts
maxReconnectAttempts == 3

RECURSIVE Pow2(_)
\* Math.pow(2, n) for an integer n >= 0
Pow2(n) == IF n = 0 THEN 1 ELSE 2 * Pow2(n - 1)

BackoffDelayBug(attempt) == Min(500 * Pow2(attempt - 1), 5000)
\* line 36: Math.min(1000 * Math.pow(2, attempt - 1), 5000)
BackoffDelay(attempt) == Min(1000 * Pow2(attempt - 1), 5000)

Delays == {BackoffDelay(a) : a \in 1..maxReconnectAttempts}

None == 0

\* lines 6-12. A ref to a transport is its index in transports, or None.
\* reconnectTimeoutRef is "null", or names a timer that is "pending" or "fired",
\* set with timeoutDelay; orphanTimers counts the pending timers it no longer names.
HookInit ==
    [isConnected          |-> FALSE,
     isConnecting         |-> FALSE,
     peerConnectionRef    |-> None,
     dataChannelRef       |-> None,
     reconnectAttemptRef  |-> 0,
     reconnectTimeoutRef  |-> "null",
     timeoutDelay         |-> 0,
     orphanTimers         |-> 0,
     manualDisconnectRef  |-> FALSE]

\* what connect() creates (lines 58-59, 98-101)
NewTransport(isAuto) ==
    [isAuto          |-> isAuto,        \* the isAuto its handlers close over
     connectionState |-> "new",         \* peerConnection.connectionState
     readyState      |-> "connecting",  \* dataChannel.readyState
     signaling       |-> "pending",     \* connect() from createOffer on (lines 152-175)
     closedEvent     |-> FALSE]         \* a connectionstatechange to closed was dispatched

NoError == ""

PendingTimers(h) == h.orphanTimers + (IF h.reconnectTimeoutRef = "pending" THEN 1 ELSE 0)

-----------------------------------------------------------------------------
(* useWebRTCConnection: the hook functions on (hook, transports) *)

\* reconnectTimeoutRef.current = setTimeout(..., delay): the ref forgets the
\* timer it named
SetReconnectTimeout(h, delay) ==
    [h EXCEPT !.reconnectTimeoutRef = "pending",
              !.timeoutDelay = delay,
              !.orphanTimers = IF h.reconnectTimeoutRef = "pending" THEN @ + 1 ELSE @]

handleReconnectIgnoresManual(h, isAuto) ==
    IF h.reconnectAttemptRef < maxReconnectAttempts /\ isAuto
    THEN SetReconnectTimeout([h EXCEPT !.reconnectAttemptRef = @ + 1],
                             BackoffDelay(h.reconnectAttemptRef + 1))
    ELSE h
handleReconnectNoLimit(h, isAuto) ==
    IF h.manualDisconnectRef THEN h
    ELSE IF isAuto
         THEN LET attempt == h.reconnectAttemptRef + 1
              IN  SetReconnectTimeout([h EXCEPT !.reconnectAttemptRef = attempt],
                                      BackoffDelay(Min(attempt, maxReconnectAttempts)))
         ELSE h
\* handleReconnect (lines 29-42)
handleReconnect(h, isAuto) ==
    IF h.manualDisconnectRef THEN h
    ELSE LET shouldRetry == h.reconnectAttemptRef < maxReconnectAttempts
         IN  IF shouldRetry /\ isAuto
             THEN LET attempt == h.reconnectAttemptRef + 1
                  IN  SetReconnectTimeout([h EXCEPT !.reconnectAttemptRef = attempt],
                                          BackoffDelay(attempt))
             ELSE h

\* the check that follows each handleReconnect call (lines 75, 84, 135, 182)
Exhausted(h) == h.reconnectAttemptRef >= maxReconnectAttempts
ErrorIfExhausted(h, message) == IF Exhausted(h) THEN message ELSE NoError

\* peerConnection.close(): the connection is closed, and its channel with it
ClosePc(tr) ==
    [tr EXCEPT !.connectionState = "closed",
               !.readyState = IF @ = "closed" THEN "closed" ELSE "closing"]

\* dataChannel.close()
CloseDc(tr) ==
    [tr EXCEPT !.readyState = IF @ = "closed" THEN "closed" ELSE "closing"]

\* cleanup (lines 14-27): the new hook state and transports
cleanup(h, ts) ==
    LET ts1 == IF h.dataChannelRef # None
               THEN [ts EXCEPT ![h.dataChannelRef] = CloseDc(@)] ELSE ts
        ts2 == IF h.peerConnectionRef # None
               THEN [ts1 EXCEPT ![h.peerConnectionRef] = ClosePc(@)] ELSE ts1
    IN  [h  |-> [h EXCEPT !.reconnectTimeoutRef = "null",
                          !.timeoutDelay = 0,
                          !.dataChannelRef = None,
                          !.peerConnectionRef = None],
         ts |-> ts2]

\* line 45: peerConnectionRef.current?.connectionState === 'connected'
AlreadyConnected(h, ts) ==
    h.peerConnectionRef # None /\ ts[h.peerConnectionRef].connectionState = "connected"

\* connect (lines 44-186) up to its first await
connect(h, ts, isAuto) ==
    IF AlreadyConnected(h, ts)
    THEN [h |-> h, ts |-> ts]
    ELSE LET c == cleanup([h EXCEPT !.manualDisconnectRef = FALSE,
                                    !.isConnected = FALSE,
                                    !.isConnecting = TRUE], ts)
             t == Len(ts) + 1
         IN  [h  |-> [c.h EXCEPT !.peerConnectionRef = t, !.dataChannelRef = t],
              ts |-> Append(c.ts, NewTransport(isAuto))]

\* the catch of connect (lines 177-185)
connectCatch(h, isAuto) ==
    handleReconnect([h EXCEPT !.isConnected = FALSE, !.isConnecting = FALSE], isAuto)

\* disconnect (lines 188-193)
disconnect(h, ts) ==
    LET c == cleanup([h EXCEPT !.manualDisconnectRef = TRUE], ts)
    IN  [h  |-> [c.h EXCEPT !.isConnected = FALSE, !.isConnecting = FALSE],
         ts |-> c.ts]

onconnectedSetsConnected(h) == [h EXCEPT !.isConnected = TRUE]
\* onconnectionstatechange, case 'connected' (lines 66-69)
onconnected(h) == h

\* onconnectionstatechange, cases 'disconnected' and 'failed' (lines 70-78)
onfailed(h, isAuto) ==
    handleReconnect([h EXCEPT !.isConnected = FALSE, !.isConnecting = FALSE], isAuto)

\* onconnectionstatechange, case 'closed' (lines 79-88)
onclosed(h, isAuto) ==
    LET h1 == [h EXCEPT !.isConnected = FALSE, !.isConnecting = FALSE]
    IN  IF ~h1.manualDisconnectRef THEN handleReconnect(h1, isAuto) ELSE h1

ondcopenKeepsAttempt(h) == [h EXCEPT !.isConnected = TRUE, !.isConnecting = FALSE]
\* dataChannel.onopen (lines 103-108)
ondcopen(h) ==
    [h EXCEPT !.isConnected = TRUE, !.isConnecting = FALSE, !.reconnectAttemptRef = 0]

\* dataChannel.onerror (lines 131-138)
ondcerror(h, isAuto) == handleReconnect([h EXCEPT !.isConnected = FALSE], isAuto)

\* dataChannel.onclose (lines 140-149)
ondcclose(h) == [h EXCEPT !.isConnected = FALSE, !.dataChannelRef = None]

\* line 146
CloseIsUnexpected(h, ts) ==
    /\ ~h.manualDisconnectRef
    /\ h.peerConnectionRef # None
    /\ ts[h.peerConnectionRef].connectionState = "failed"

-----------------------------------------------------------------------------
(* useWebRTCConnection: actions *)

ConnOnly == UNCHANGED <<sliceVars, serverVars, msgVars, decVars, playVars>>

TransportIds == 1..Len(transports)

\* the application calls connect({ isAuto })
Connect(isAuto) ==
    /\ AlreadyConnected(hook, transports) \/ Len(transports) < MaxTransports
    /\ LET c == connect(hook, transports, isAuto)
       IN  /\ hook' = c.h
           /\ transports' = c.ts
           /\ onErrorCall' = NoError
    /\ ConnOnly

\* a reconnect timer fires (lines 38-40): connect({ isAuto: true })
ReconnectTimerFires ==
    /\ AlreadyConnected(hook, transports) \/ Len(transports) < MaxTransports
    /\ \E named \in BOOLEAN :
        LET h == IF named
                 THEN [hook EXCEPT !.reconnectTimeoutRef = "fired", !.timeoutDelay = 0]
                 ELSE [hook EXCEPT !.orphanTimers = @ - 1]
            c == connect(h, transports, TRUE)
        IN  /\ IF named THEN hook.reconnectTimeoutRef = "pending"
                        ELSE hook.orphanTimers > 0
            /\ hook' = c.h
            /\ transports' = c.ts
            /\ onErrorCall' = NoError
    /\ ConnOnly

\* the application calls disconnect()
Disconnect ==
    /\ LET c == disconnect(hook, transports)
       IN  hook' = c.h /\ transports' = c.ts
    /\ onErrorCall' = NoError
    /\ ConnOnly

\* the awaits of connect settle: the answer is applied, or one of them rejects
\* (the request fails, the response is not ok, the connection was closed meanwhile)
SignalingSettles(t) ==
    /\ transports[t].signaling = "pending"
    /\ \E ok \in BOOLEAN :
        IF ok /\ transports[t].connectionState # "closed"
        THEN /\ transports' = [transports EXCEPT ![t].signaling = "done"]
             /\ onErrorCall' = NoError
             /\ UNCHANGED hook
        ELSE /\ transports' = [transports EXCEPT ![t].signaling = "failed"]
             /\ hook' = connectCatch(hook, transports[t].isAuto)
             /\ hook'.orphanTimers <= MaxOrphans
             /\ onErrorCall' =
                    ErrorIfExhausted(hook', "Failed to connect to server. Please try again.")
    /\ ConnOnly

\* peerConnection.onconnectionstatechange (lines 62-90) on a state change of the transport
ConnectionStateChange(t) ==
    /\ \E st \in NextPcStates(transports[t].connectionState) :
        /\ st = "connected" => transports[t].signaling = "done"
        /\ transports' = [transports EXCEPT ![t].connectionState = st]
        /\ IF st \in {"disconnected", "failed"}
           THEN /\ hook' = onfailed(hook, transports[t].isAuto)
                /\ hook'.orphanTimers <= MaxOrphans
                /\ onErrorCall' =
                       ErrorIfExhausted(hook', "Connection lost. Please try again.")
           ELSE /\ hook' = IF st = "connected" THEN onconnected(hook) ELSE hook
                /\ onErrorCall' = NoError
    /\ ConnOnly

\* the same handler, where the platform dispatches the event for close()
ConnectionClosedEvent(t) ==
    /\ transports[t].connectionState = "closed"
    /\ ~transports[t].closedEvent
    /\ transports' = [transports EXCEPT ![t].closedEvent = TRUE]
    /\ hook' = onclosed(hook, transports[t].isAuto)
    /\ hook'.orphanTimers <= MaxOrphans
    /\ onErrorCall' =
           IF ~hook.manualDisconnectRef
           THEN ErrorIfExhausted(hook', "Unable to connect. Is the server running?")
           ELSE NoError
    /\ ConnOnly

\* the open event of the data channel
DataChannelOpen(t) ==
    /\ transports[t].readyState = "connecting"
    /\ transports[t].connectionState = "connected"
    /\ transports' = [transports EXCEPT ![t].readyState = "open"]
    /\ hook' = ondcopen(hook)
    /\ onErrorCall' = NoError
    /\ ConnOnly

\* an error event of the data channel
DataChannelError(t) ==
    /\ transports[t].readyState = "open"
    /\ hook' = ondcerror(hook, transports[t].isAuto)
    /\ hook'.orphanTimers <= MaxOrphans
    /\ onErrorCall' = ErrorIfExhausted(hook', "Data channel error. Please try again.")
    /\ UNCHANGED transports
    /\ ConnOnly

\* the channel closes (closed by either side, or with its connection): the close event
DataChannelClose(t) ==
    /\ transports[t].readyState # "closed"
    /\ transports' = [transports EXCEPT ![t].readyState = "closed"]
    /\ hook' = ondcclose(hook)
    /\ onErrorCall' =
           IF CloseIsUnexpected(hook, transports)
           THEN "Connection closed unexpectedly" ELSE NoError
    /\ ConnOnly

ConnNext ==
    \/ \E isAuto \in BOOLEAN : Connect(isAuto)
    \/ ReconnectTimerFires
    \/ Disconnect
    \/ \E t \in TransportIds : SignalingSettles(t)
    \/ \E t \in TransportIds : ConnectionStateChange(t)
    \/ \E t \in TransportIds : ConnectionClosedEvent(t)
    \/ \E t \in TransportIds : DataChannelOpen(t)
    \/ \E t \in TransportIds : DataChannelError(t)
    \/ \E t \in TransportIds : DataChannelClose(t)

ConnInit ==
    /\ hook = HookInit
    /\ transports = <<>>
    /\ onErrorCall = NoError

-----------------------------------------------------------------------------
(* utils/webrtcHandlers and dataChannel.onmessage: values *)

\* the textual payloads considered, as the channel delivers them
TextPayloads ==
    {"{\"type\":\"metadata\",\"totalSize\":1000}",
     "{\"type\":\"error\",\"message\":\"Test error\"}",
     "{\"type\":\"error\"}",
     "{\"type\":\"error\",\"message\":\"\"}",
     "{\"type\":\"complete\"}",
     "{\"type\":\"unknown\"}",
     "{}",
     "null",
     "42",
     "invalid json",
     ""}

\* the values JSON.parse returns on them; ok = FALSE: it throws a SyntaxError
JsonObject(type, message) ==
    [ok |-> TRUE, kind |-> "object", type |-> type, message |-> message]
JsonScalar(kind) ==
    [ok |-> TRUE, kind |-> kind, type |-> Undefined, message |-> Undefined]
JsonSyntaxError ==
    [ok |-> FALSE, kind |-> "none", type |-> Undefined, message |-> Undefined]

JsonParse(data) ==
    CASE data = "{\"type\":\"metadata\",\"totalSize\":1000}" -> JsonObject("metadata", Undefined)
      [] data = "{\"type\":\"error\",\"message\":\"Test error\"}" -> JsonObject("error", "Test error")
      [] data = "{\"type\":\"error\"}" -> JsonObject("error", Undefined)
      [] data = "{\"type\":\"error\",\"message\":\"\"}" -> JsonObject("error", "")
      [] data = "{\"type\":\"complete\"}" -> JsonObject("complete", Undefined)
      [] data = "{\"type\":\"unknown\"}" -> JsonObject("unknown", Undefined)
      [] data = "{}" -> JsonObject(Undefined, Undefined)
      [] data = "null" -> JsonScalar("null")
      [] data = "42" -> JsonScalar("number")
      [] OTHER -> JsonSyntaxError

\* what a caller passes for a callback: nothing, a function that returns, or
\* one that throws
CallbackKinds == {"absent", "returns", "throws"}
Callbacks ==
    [onMetadata : CallbackKinds, onError : CallbackKinds, onComplete : CallbackKinds,
     onBinaryMessage : CallbackKinds]

\* event.data of a message event: a string, an ArrayBuffer or a Blob
TextEvents == {[kind |-> "string", body |-> s] : s \in TextPayloads}
BinaryEvents ==
    {[kind |-> k, body |-> b] : k \in {"ArrayBuffer", "Blob"}, b \in {"chunk-a", "chunk-b"}}

\* the outcome of a handler: the callbacks it called with their argument, in
\* order, whether it called dataChannel.close(), what it returned ("none": it
\* returned nothing), whether it threw
Outcome(calls, closed, returned, threw) ==
    [calls |-> calls, closed |-> closed, returned |-> returned, threw |-> threw]

\* no message yet; cb: the callbacks the hook was given
NoMessage(cb) ==
    [data |-> [kind |-> "none", body |-> ""],
     cb   |-> cb,
     out  |-> Outcome(<<>>, FALSE, "none", FALSE)]

MaxDelivered == 2

-----------------------------------------------------------------------------
(* utils/webrtcHandlers and dataChannel.onmessage: the handlers *)

\* callback?.(arg): the call made, if the callback is there
Invoke(kind, name, arg) ==
    IF kind = "absent" THEN <<>> ELSE <<[cb |-> name, arg |-> arg]>>

\* the catch of handleJsonMessage (lines 103-106): whatever was called before
\* the exception stays called, nothing is closed, false is returned
JsonCaught(calls) == Outcome(calls, FALSE, "false", FALSE)

\* one case of the switch: call the callback, then close if the case does, then
\* return true; an exception of the callback goes to the catch
JsonCase(kind, name, arg, closes) ==
    IF kind = "throws"
    THEN JsonCaught(Invoke(kind, name, arg))
    ELSE Outcome(Invoke(kind, name, arg), closes, "true", FALSE)

\* line 93: message.message || 'An error occurred while streaming'
ErrorText(message) ==
    IF Truthy(message) THEN message ELSE "An error occurred while streaming"

handleJsonMessageRethrows(data, cb) ==
    LET m == JsonParse(data)
    IN  IF ~m.ok \/ m.kind = "null"
        THEN Outcome(<<>>, FALSE, "none", TRUE)
        ELSE CASE m.type = "metadata" -> JsonCase(cb.onMetadata, "onMetadata", data, FALSE)
               [] m.type = "error"    ->
                      JsonCase(cb.onError, "onError", ErrorText(m.message), TRUE)
               [] m.type = "complete" -> JsonCase(cb.onComplete, "onComplete", "", FALSE)
               [] OTHER               -> JsonCase("absent", "none", "", FALSE)
handleJsonMessageClosesAlways(data, cb) ==
    LET m == JsonParse(data)
    IN  IF ~m.ok \/ m.kind = "null"
        THEN JsonCaught(<<>>)
        ELSE CASE m.type = "metadata" -> JsonCase(cb.onMetadata, "onMetadata", data, TRUE)
               [] m.type = "error"    ->
                      JsonCase(cb.onError, "onError", ErrorText(m.message), TRUE)
               [] m.type = "complete" -> JsonCase(cb.onComplete, "onComplete", "", TRUE)
               [] OTHER               -> JsonCase("absent", "none", "", FALSE)
\* handleJsonMessage (config.js lines 82-107). JSON.parse throws on text that
\* is no JSON; message.type throws on null; both end in the catch. The
\* metadata callback takes the parsed message, named here by its text.
handleJsonMessage(data, cb) ==
    LET m == JsonParse(data)
    IN  IF ~m.ok \/ m.kind = "null"
        THEN JsonCaught(<<>>)
        ELSE CASE m.type = "metadata" -> JsonCase(cb.onMetadata, "onMetadata", data, FALSE)
               [] m.type = "error"    ->
                      JsonCase(cb.onError, "onError", ErrorText(m.message), TRUE)
               [] m.type = "complete" -> JsonCase(cb.onComplete, "onComplete", "", FALSE)
               [] OTHER               -> JsonCase("absent", "none", "", FALSE)

\* handleBinaryMessage (config.js lines 115-122): an exception of the callback
\* is logged and thrown again
handleBinaryMessage(body, kind) ==
    Outcome(Invoke(kind, "onBinaryMessage", body), FALSE, "none", kind = "throws")

\* dataChannel.onmessage (part_003 lines 110-129). The outcome keeps what
\* handleJsonMessage returned, which onmessage itself drops. An exception of
\* onError inside the catch rejects the promise of the async handler.
onmessage(data, cb) ==
    IF data.kind = "string"
    THEN LET j == handleJsonMessage(data.body, cb)
         IN  IF j.threw
             THEN Outcome(j.calls \o Invoke(cb.onError, "onError", "Error processing audio data"),
                          j.closed, j.returned, cb.onError = "throws")
             ELSE j
    ELSE LET b == handleBinaryMessage(data.body, cb.onBinaryMessage)
         IN  IF b.threw
             THEN Outcome(b.calls \o Invoke(cb.onError, "onError", "Error processing audio data"),
                          FALSE, "none", cb.onError = "throws")
             ELSE b

\* the payloads onBinaryMessage took and returned from
Taken(data, cb) ==
    IF data.kind # "string" /\ cb.onBinaryMessage = "returns" THEN <<data.body>> ELSE <<>>

MsgOnly == UNCHANGED <<sliceVars, serverVars, connVars, decVars, playVars>>

\* a message event on the open channel
OnMessage(data, cb) ==
    /\ msgChannel = "open"
    /\ Len(delivered) + Len(Taken(data, cb)) <= MaxDelivered
    /\ LET out == onmessage(data, cb)
       IN  /\ lastMessage' = [data |-> data, cb |-> cb, out |-> out]
           /\ msgChannel' = IF out.closed THEN "closing" ELSE msgChannel
           /\ delivered' = delivered \o Taken(data, cb)
    /\ MsgOnly

OnTextMessage == \E data \in TextEvents : OnMessage(data, lastMessage.cb)
OnBinaryMessage == \E data \in BinaryEvents : OnMessage(data, lastMessage.cb)

MsgNext == OnTextMessage \/ OnBinaryMessage

MsgInit ==
    /\ msgChannel = "open"
    /\ delivered = <<>>
    /\ lastMessage \in {NoMessage(cb) : cb \in Callbacks}

-----------------------------------------------------------------------------
(* useAudioDecoder: values *)

MaxChunks == 3       \* addChunk calls in a behaviour
MaxResets == 1       \* reset calls in a behaviour
MaxTriggers == 1     \* tryDecode calls made from outside addChunk

bufferThresholdSeconds == 10
\* the byte lengths of the chunks that arrive: 2 s and 5 s at the rate of
\* estimateBufferedDuration, so that the threshold of 10 s and a growth of
\* exactly 20 % are both met by some arrival sequences
ChunkSizes == {2 * 12 * 1024, 5 * 12 * 1024}

\* An ArrayBuffer is its byteLength and the chunks it was filled from: a part
\* <<id, offset, n>> stands for the n bytes of chunk id, written at offset.
\* accumulatedBufferRef.current = null is the buffer of byteLength -1.
NullBuffer == [byteLength |-> -1, parts |-> <<>>]

\* part_004 23: chunks.reduce((sum, chunk) => sum + chunk.byteLength, 0)
RECURSIVE TotalLength(_)
TotalLength(chunks) ==
    IF chunks = <<>> THEN 0
    ELSE Head(chunks).byteLength + TotalLength(Tail(chunks))

\* part_004 26-30: the loop, from the chunk at index k on, writing at offset
RECURSIVE SetChunks(_, _, _, _)
SetChunksNoOffset(chunks, k, offset, parts) ==
    IF k > Len(chunks) THEN parts
    ELSE SetChunks(chunks, k + 1, offset,
                   Append(parts, <<chunks[k].id, offset, chunks[k].byteLength>>))

SetChunks(chunks, k, offset, parts) ==
    IF k > Len(chunks) THEN parts
    ELSE SetChunks(chunks, k + 1, offset + chunks[k].byteLength,
                   Append(parts, <<chunks[k].id, offset, chunks[k].byteLength>>))

\* part_004 22-36
accumulateChunks(chunks) ==
    LET totalLength == TotalLength(chunks)
    IN  [buffer |-> [byteLength |-> totalLength,
                     parts |-> SetChunks(chunks, 1, 0, <<>>)],
         totalBytes |-> totalLength]

\* part_004 11-15: totalBytes / (12 * 1024) >= seconds, on integers
EstimateAtLeast(totalBytes, seconds) == totalBytes >= seconds * 12 * 1024

\* size > lastDecodedBytes * 1.2 (useAudioDecoder 43, 86).  For the sizes of
\* the model, all multiples of 12288 below 2^20, the double product is exact
\* and the comparison equals the one on integers.
GrownBeyond(size, lastDecodedBytes) == 5 * size > 6 * lastDecodedBytes

\* bufferedSeconds: 0, the estimate for a byte count, or the duration of the
\* audio decoded from a snapshot of so many bytes
Seconds(kind, bytes) == [kind |-> kind, bytes |-> bytes]

\* useAudioDecoder 6-11, part_002 8
DecoderInit ==
    [rawChunks |-> <<>>, accumulatedBuffer |-> NullBuffer,
     decodedBuffers |-> <<>>, isDecoding |-> FALSE, lastDecodedBytes |-> 0,
     bufferedSeconds |-> Seconds("zero", 0), audioContext |-> FALSE]

\* the outcome of the synchronous part of a call: the decoder and the
\* suspended calls it leaves, and what it returned if it returned
Ran(d, suspended, result) == [decoder |-> d, suspended |-> suspended, result |-> result]

-----------------------------------------------------------------------------
(* useAudioDecoder: the hook functions *)

\* useAudioDecoder 13-17
performAccumulation(d) ==
    LET acc == accumulateChunks(d.rawChunks)
    IN  [decoder |-> [d EXCEPT !.accumulatedBuffer = acc.buffer],
         totalBytes |-> acc.totalBytes]

\* useAudioDecoder 36-55: tryDecode from its guard to the await of decodeAudioData
tryDecodeGuarded(d, forceMode, epoch) ==
    IF ~d.audioContext \/ d.accumulatedBuffer = NullBuffer \/ d.isDecoding
    THEN Ran(d, <<>>, "null")
    ELSE LET currentBufferSize == d.accumulatedBuffer.byteLength
             hasGrown == GrownBeyond(currentBufferSize, d.lastDecodedBytes)
             shouldDecode == forceMode \/ Len(d.decodedBuffers) = 0 \/ hasGrown
         IN  IF ~shouldDecode THEN Ran(d, <<>>, "null")
             ELSE Ran([d EXCEPT !.isDecoding = TRUE],
                      <<[at |-> "decodeAudioData", forceMode |-> forceMode,
                         currentBufferSize |-> currentBufferSize,
                         snapshot |-> d.accumulatedBuffer, epoch |-> epoch]>>,
                      "pending")

\* useAudioDecoder 19-34: the entry of tryDecode; useAudioStream 23 always
\* passes ensureContextReady
tryDecode(d, forceMode, epoch) ==
    IF ~d.audioContext /\ d.accumulatedBuffer # NullBuffer
    THEN Ran(d, <<[at |-> "ensureContextReady", forceMode |-> forceMode,
                   currentBufferSize |-> 0, snapshot |-> NullBuffer,
                   epoch |-> epoch]>>, "pending")
    ELSE tryDecodeGuarded(d, forceMode, epoch)

\* useAudioDecoder 56-69: the continuation of tryDecode after decodeAudioData
decodeSettledFailureClears(d, call, ok) ==
    IF ok
    THEN Ran([d EXCEPT !.decodedBuffers = <<[decodedFrom |-> call.snapshot]>>,
                       !.bufferedSeconds = Seconds("decoded", call.snapshot.byteLength),
                       !.lastDecodedBytes = call.currentBufferSize,
                       !.isDecoding = FALSE],
             <<>>, "audioBuffer")
    ELSE Ran([d EXCEPT !.decodedBuffers = <<>>, !.lastDecodedBytes = 0,
                       !.isDecoding = FALSE], <<>>, "null")

decodeSettled(d, call, ok) ==
    IF ok
    THEN Ran([d EXCEPT !.decodedBuffers = <<[decodedFrom |-> call.snapshot]>>,
                       !.bufferedSeconds = Seconds("decoded", call.snapshot.byteLength),
                       !.lastDecodedBytes = call.currentBufferSize,
                       !.isDecoding = FALSE],
             <<>>, "audioBuffer")
    ELSE Ran([d EXCEPT !.isDecoding = FALSE], <<>>, "null")

\* useAudioDecoder 26-38: the continuation of tryDecode after ensureContextReady
contextSettled(d, call, ok) ==
    IF ok
    THEN tryDecodeGuarded([d EXCEPT !.audioContext = TRUE], call.forceMode, call.epoch)
    ELSE Ran(d, <<>>, "null")

\* useAudioDecoder 72-91
addChunk(d, arrayBuffer, epoch) ==
    LET acc == performAccumulation([d EXCEPT !.rawChunks = Append(@, arrayBuffer)])
        totalBytes == acc.totalBytes
        d1 == IF Len(acc.decoder.decodedBuffers) = 0
              THEN [acc.decoder EXCEPT !.bufferedSeconds = Seconds("estimate", totalBytes)]
              ELSE acc.decoder
        shouldAttemptDecode ==
            \/ EstimateAtLeast(totalBytes, bufferThresholdSeconds)
            \/ /\ Len(d1.decodedBuffers) > 0
               /\ GrownBeyond(totalBytes, d1.lastDecodedBytes)
    IN  IF shouldAttemptDecode /\ ~d1.isDecoding
        THEN tryDecode(d1, FALSE, epoch)
        ELSE Ran(d1, <<>>, "undefined")

\* useAudioStream 39-44: what onError does with the accumulation
onStreamErrorUnforced(d, epoch) ==
    IF d.accumulatedBuffer # NullBuffer /\ d.accumulatedBuffer.byteLength > 0
    THEN tryDecode(d, FALSE, epoch)
    ELSE Ran(d, <<>>, "none")

onStreamError(d, epoch) ==
    IF d.accumulatedBuffer # NullBuffer /\ d.accumulatedBuffer.byteLength > 0
    THEN tryDecode(d, TRUE, epoch)
    ELSE Ran(d, <<>>, "none")

\* useAudioDecoder 93-100
reset(d) ==
    [d EXCEPT !.rawChunks = <<>>, !.accumulatedBuffer = NullBuffer,
              !.decodedBuffers = <<>>, !.isDecoding = FALSE,
              !.lastDecodedBytes = 0, !.bufferedSeconds = Seconds("zero", 0)]

-----------------------------------------------------------------------------
(* useAudioDecoder: actions *)

DecOnly == UNCHANGED <<sliceVars, serverVars, connVars, msgVars, playVars>>

RemoveAt(seq, i) == SubSeq(seq, 1, i - 1) \o SubSeq(seq, i + 1, Len(seq))

DecEvent(name, call, ok, result) ==
    [name |-> name, call |-> call, ok |-> ok, result |-> result]

NoCall == [at |-> "none", forceMode |-> FALSE, currentBufferSize |-> 0,
           snapshot |-> NullBuffer, epoch |-> 0]

\* part_002 12-18: the promise of the mount effect resolves
AudioContextInit ==
    /\ ~decoder.audioContext
    /\ decoder' = [decoder EXCEPT !.audioContext = TRUE]
    /\ decEvent' = DecEvent("init", NoCall, TRUE, "undefined")
    /\ UNCHANGED <<awaiting, decCalls>>
    /\ DecOnly

\* useAudioStream 26-28: onBinaryMessage hands the payload to addChunk
AddChunk(size) ==
    /\ decCalls.chunks < MaxChunks
    /\ ~decCalls.complete    \* the sender's complete message follows its last chunk
    /\ LET arrayBuffer == [id |-> decCalls.chunks + 1, byteLength |-> size]
           ran == addChunk(decoder, arrayBuffer, decCalls.resets)
       IN  /\ decoder' = ran.decoder
           /\ awaiting' = awaiting \o ran.suspended
           /\ decEvent' = DecEvent("addChunk", NoCall, TRUE, ran.result)
    /\ decCalls' = [decCalls EXCEPT !.chunks = @ + 1,
                                    !.sinceReset = Append(@, [id |-> decCalls.chunks + 1,
                                                              byteLength |-> size])]
    /\ DecOnly

\* useAudioStream 34, 43 and useAudioStreamHandlers 45 call tryDecode(true),
\* useAudioStream 83 calls tryDecode()
TryDecode(forceMode) ==
    /\ decCalls.triggers < MaxTriggers
    /\ LET ran == tryDecode(decoder, forceMode, decCalls.resets)
       IN  /\ decoder' = ran.decoder
           /\ awaiting' = awaiting \o ran.suspended
           /\ decEvent' = DecEvent("tryDecode", NoCall, forceMode, ran.result)
    /\ decCalls' = [decCalls EXCEPT !.triggers = @ + 1]
    /\ DecOnly

\* useAudioStream 32-35: onComplete, on the complete message of the stream
OnComplete ==
    /\ decCalls.triggers < MaxTriggers
    /\ ~decCalls.complete
    /\ decCalls.sinceReset # <<>>
    /\ LET ran == tryDecode(decoder, TRUE, decCalls.resets)
       IN  /\ decoder' = ran.decoder
           /\ awaiting' = awaiting \o ran.suspended
           /\ decEvent' = DecEvent("onComplete", NoCall, TRUE, ran.result)
    /\ decCalls' = [decCalls EXCEPT !.complete = TRUE, !.triggers = @ + 1]
    /\ DecOnly

\* the promise of ensureContextReady settles: it resolves or rejects
EnsureContextSettles(i, ok) ==
    /\ i \in 1..Len(awaiting)
    /\ awaiting[i].at = "ensureContextReady"
    /\ LET ran == contextSettled(decoder, awaiting[i], ok)
       IN  /\ decoder' = ran.decoder
           /\ awaiting' = RemoveAt(awaiting, i) \o ran.suspended
           /\ decEvent' = DecEvent("ensureContextReady", awaiting[i], ok, ran.result)
    /\ UNCHANGED decCalls
    /\ DecOnly

\* the promise of decodeAudioData settles: it resolves or rejects
DecodeSettles(i, ok) ==
    /\ i \in 1..Len(awaiting)
    /\ awaiting[i].at = "decodeAudioData"
    /\ LET ran == decodeSettled(decoder, awaiting[i], ok)
       IN  /\ decoder' = ran.decoder
           /\ awaiting' = RemoveAt(awaiting, i)
           /\ decEvent' = DecEvent("decodeAudioData", awaiting[i], ok, ran.result)
    /\ UNCHANGED decCalls
    /\ DecOnly

\* useAudioStreamHandlers 72-78 (stop) and retry call reset()
Reset ==
    /\ decCalls.resets < MaxResets
    /\ decoder' = reset(decoder)
    /\ decCalls' = [decCalls EXCEPT !.resets = @ + 1, !.sinceReset = <<>>,
                                    !.complete = FALSE]
    /\ decEvent' = DecEvent("reset", NoCall, TRUE, "undefined")
    /\ UNCHANGED awaiting
    /\ DecOnly

DecNext ==
    \/ AudioContextInit
    \/ \E size \in ChunkSizes : AddChunk(size)
    \/ \E forceMode \in BOOLEAN : TryDecode(forceMode)
    \/ OnComplete
    \/ \E i \in 1..Len(awaiting), ok \in BOOLEAN : EnsureContextSettles(i, ok)
    \/ \E i \in 1..Len(awaiting), ok \in BOOLEAN : DecodeSettles(i, ok)
    \/ Reset

DecInit ==
    /\ decoder = DecoderInit
    /\ awaiting = <<>>
    /\ decCalls = [chunks |-> 0, resets |-> 0, triggers |-> 0, sinceReset |-> <<>>,
                   complete |-> FALSE]
    /\ decEvent = DecEvent("none", NoCall, TRUE, "undefined")

-----------------------------------------------------------------------------
(* The playback coordinator: values *)

\* Times, positions and durations are in hundredths of a second.
MaxTime == 1000      \* ctx.currentTime stays within it
MaxCalls == 1        \* calls suspended at ensureContext at a time

thresholdSeconds == bufferThresholdSeconds * 100

\* the advances of ctx.currentTime between two events
TimeSteps == {500}
\* audioBuffer.duration of the decoded units, and the estimates shown before one exists
DecodedDurations == {990, 1000, 1010, 1150}
Estimates == {1000}

NoBuffer == 0        \* getDecodedBuffer() returns null

\* useAudioStreamHandlers 104-114, useBufferReplacement 15, useAudioStream 11,
\* part_006 7, and the values the coordinator is rendered with: the connection
\* state of useWebRTCConnection, bufferedSeconds and the decoded unit of
\* useAudioDecoder (its duration); rendered is what the effects last ran with
PlayerInit ==
    [isPlaying |-> FALSE, isPaused |-> FALSE, isBuffering |-> FALSE,
     sourceNodeRef |-> "null", startTimeRef |-> 0, pausedTimeRef |-> 0,
     playbackOffsetRef |-> 0, hasUserGestureRef |-> FALSE,
     currentBufferDurationRef |-> 0, lastBufferDurationRef |-> 0,
     error |-> "null",
     context |-> "none", currentTime |-> 0,
     connection |-> "idle", bufferedSeconds |-> 0, decodedBuffer |-> NoBuffer,
     rendered |-> [isPlaying |-> FALSE, isPaused |-> FALSE, isBuffering |-> FALSE,
                   bufferedSeconds |-> 0, isConnected |-> FALSE, isConnecting |-> FALSE]]

\* the coordinator, its source nodes and its suspended calls
Stage(p, srcs, calls) == [player |-> p, sources |-> srcs, playCalls |-> calls]

\* what a render passes to the handlers and the effects
Rendered(p) ==
    [isPlaying |-> p.isPlaying, isPaused |-> p.isPaused, isBuffering |-> p.isBuffering,
     bufferedSeconds |-> p.bufferedSeconds, isConnected |-> p.connection = "connected",
     isConnecting |-> p.connection = "connecting"]

\* the values of a render that handlePlay reads after its await
Closure(p) ==
    [isPaused |-> p.isPaused, bufferedSeconds |-> p.bufferedSeconds,
     isConnected |-> p.connection = "connected",
     isConnecting |-> p.connection = "connecting"]

-----------------------------------------------------------------------------
(* useAudioPlayback *)

\* part_006 14-35, up to the await of resume(): a context created before any
\* user gesture starts suspended
ensureContext(p) ==
    IF p.context = "none"
    THEN [p EXCEPT !.context = IF p.hasUserGestureRef THEN "running" ELSE "suspended"]
    ELSE p

\* config.js 25-43: the node that plays, source.start(0, offset) of buffer;
\* started tells that the latest step created it
NoSource == [buffer |-> NoBuffer, offset |-> 0]
SourcesInit == [playing |-> NoSource, stopped |-> FALSE, started |-> FALSE]

createAudioSource(srcs, audioBuffer, offset) ==
    [srcs EXCEPT !.playing = [buffer |-> audioBuffer, offset |-> offset],
                 !.started = TRUE]

\* config.js 50-65 on the source of sourceNodeRef: disconnect and stop; its
\* ended event comes later
cleanupSource(srcs) == [srcs EXCEPT !.playing = NoSource, !.stopped = TRUE]

\* useAudioStreamHandlers 230-239
getCurrentPlaybackPosition(p) ==
    IF p.sourceNodeRef = "null" \/ p.context = "none" THEN 0
    ELSE Min(p.playbackOffsetRef + (p.currentTime - p.startTimeRef),
             p.currentBufferDurationRef)

\* useAudioStreamHandlers 124-180: play after its await, with no resumeOffset
\* (no caller passes one); config.js 25-43 creates and starts the source
playStartsAtZero(st, audioBuffer) ==
    LET p == st.player
        srcs == IF p.sourceNodeRef # "null"
                THEN cleanupSource(st.sources) ELSE st.sources
    IN  Stage([p EXCEPT !.startTimeRef = p.currentTime,
                        !.playbackOffsetRef = 0,
                        !.currentBufferDurationRef = audioBuffer,
                        !.sourceNodeRef = "source",
                        !.isPlaying = TRUE, !.isPaused = FALSE, !.isBuffering = FALSE],
              createAudioSource(srcs, audioBuffer, 0), st.playCalls)

playStarts(st, audioBuffer) ==
    LET p == st.player
        currentOffset ==
            IF p.sourceNodeRef # "null"
            THEN p.playbackOffsetRef + (p.currentTime - p.startTimeRef)
            ELSE p.pausedTimeRef
        srcs == IF p.sourceNodeRef # "null"
                THEN cleanupSource(st.sources) ELSE st.sources
    IN  Stage([p EXCEPT !.startTimeRef = p.currentTime,
                        !.playbackOffsetRef = currentOffset,
                        !.currentBufferDurationRef = audioBuffer,
                        !.sourceNodeRef = "source",
                        !.isPlaying = TRUE, !.isPaused = FALSE, !.isBuffering = FALSE],
              createAudioSource(srcs, audioBuffer, currentOffset), st.playCalls)

\* useAudioStreamHandlers 116-122: play up to its await.  With a running
\* context the promise of ensureContext resolves before any other event, so
\* play goes on at once; with a suspended one it waits for resume().
play(st, audioBuffer) ==
    IF audioBuffer = NoBuffer THEN st
    ELSE LET p == ensureContext(st.player)
         IN  IF p.context = "running"
             THEN playStarts([st EXCEPT !.player = p], audioBuffer)
             ELSE [st EXCEPT !.player = p,
                             !.playCalls = Append(@, [fn |-> "play",
                                                      audioBuffer |-> audioBuffer,
                                                      rendered |-> Closure(PlayerInit)])]

\* useAudioStreamHandlers 183-196
pauseKeepsPlaying(st) ==
    LET p == st.player
    IN  IF p.sourceNodeRef = "null" \/ p.context = "none" THEN st
        ELSE [st EXCEPT !.player = [p EXCEPT !.pausedTimeRef = p.currentTime - p.startTimeRef,
                                             !.sourceNodeRef = "null",
                                             !.isPaused = TRUE],
                        !.sources = cleanupSource(@)]

pauseUnguarded(st) ==
    LET p == st.player
    IN  [st EXCEPT !.player = [p EXCEPT !.pausedTimeRef = p.currentTime - p.startTimeRef,
                                        !.sourceNodeRef = "null",
                                        !.isPlaying = FALSE, !.isPaused = TRUE],
                   !.sources = IF p.sourceNodeRef # "null" THEN cleanupSource(@) ELSE @]

pause(st) ==
    LET p == st.player
    IN  IF p.sourceNodeRef = "null" \/ p.context = "none" THEN st
        ELSE [st EXCEPT !.player = [p EXCEPT !.pausedTimeRef = p.currentTime - p.startTimeRef,
                                             !.sourceNodeRef = "null",
                                             !.isPlaying = FALSE, !.isPaused = TRUE],
                        !.sources = cleanupSource(@)]

\* useAudioStreamHandlers 198-212, part_006 54-58
stop(st) ==
    LET p == st.player
    IN  [st EXCEPT !.player = [p EXCEPT !.sourceNodeRef = "null",
                                        !.context = IF @ = "running" THEN "suspended" ELSE @,
                                        !.isPlaying = FALSE, !.isPaused = FALSE,
                                        !.pausedTimeRef = 0, !.startTimeRef = 0,
                                        !.playbackOffsetRef = 0,
                                        !.currentBufferDurationRef = 0],
                   !.sources = IF p.sourceNodeRef # "null"
                               THEN cleanupSource(@) ELSE @]

\* useAudioStreamHandlers 139-168: onEnded of a source; active tells that it is
\* the one sourceNodeRef holds.  A source that ended plays no more.
onEndedAnySource(st, active) ==
    LET p == st.player
        currentPosition == p.playbackOffsetRef + (p.currentTime - p.startTimeRef)
    IN  IF p.context = "none" \/ 100 * currentPosition >= 99 * p.currentBufferDurationRef
        THEN [st EXCEPT !.player = [p EXCEPT !.sourceNodeRef = "null",
                                             !.isPlaying = FALSE,
                                             !.playbackOffsetRef = 0,
                                             !.currentBufferDurationRef = 0],
                        !.sources.playing = NoSource]
        ELSE st

onEnded(st, active) ==
    LET p == st.player
        currentPosition == p.playbackOffsetRef + (p.currentTime - p.startTimeRef)
    IN  IF ~active \/ p.sourceNodeRef = "null" THEN st
        ELSE IF p.context = "none" \/ 100 * currentPosition >= 99 * p.currentBufferDurationRef
             THEN [st EXCEPT !.player = [p EXCEPT !.sourceNodeRef = "null",
                                                  !.isPlaying = FALSE,
                                                  !.playbackOffsetRef = 0,
                                                  !.currentBufferDurationRef = 0],
                             !.sources.playing = NoSource]
             ELSE st

-----------------------------------------------------------------------------
(* The effects of useAutoStartPlayback, useBufferReplacement and useAudioStream *)

\* an effect runs after a render that changed one of its dependencies
Changed(p, deps) == \E f \in deps : p.rendered[f] # Rendered(p)[f]

\* useAutoStartPlayback 23-30 (play changes with isPlaying and isPaused)
shouldAutoStartNoThreshold(p) ==
    /\ Changed(p, {"bufferedSeconds", "isBuffering", "isPlaying", "isPaused"})
    /\ p.isBuffering
    /\ ~p.isPlaying
    /\ ~p.isPaused
    /\ p.hasUserGestureRef
    /\ p.decodedBuffer # NoBuffer

shouldAutoStart(p) ==
    /\ Changed(p, {"bufferedSeconds", "isBuffering", "isPlaying", "isPaused"})
    /\ p.isBuffering
    /\ p.bufferedSeconds >= thresholdSeconds
    /\ ~p.isPlaying
    /\ ~p.isPaused
    /\ p.hasUserGestureRef
    /\ p.decodedBuffer # NoBuffer

\* useAutoStartPlayback 52-59
clearBuffering(p) ==
    /\ Changed(p, {"bufferedSeconds", "isBuffering", "isPlaying"})
    /\ p.bufferedSeconds >= thresholdSeconds /\ p.isBuffering /\ ~p.isPlaying
    /\ ~p.hasUserGestureRef

\* useBufferReplacement 17-52: currentDuration > last * 1.1, remainingContent > 5,
\* currentDuration > last + 2
shouldReplace(p) ==
    LET currentDuration == p.decodedBuffer
        last == p.lastBufferDurationRef
        hasNewContent == 10 * currentDuration > 11 * last
        remainingContent == currentDuration - getCurrentPlaybackPosition(p)
    IN  /\ Changed(p, {"isPlaying", "isPaused", "bufferedSeconds"})
        /\ p.isPlaying
        /\ p.decodedBuffer # NoBuffer
        /\ hasNewContent
        /\ remainingContent > 500 \/ (hasNewContent /\ currentDuration > last + 200)

\* useBufferReplacement 55-59
resetTracking(p) == Changed(p, {"isPlaying"}) /\ ~p.isPlaying

\* useAudioStream 68-73
startBufferingUnconnected(p) ==
    /\ Changed(p, {"isConnected", "isPlaying", "isPaused", "bufferedSeconds"})
    /\ ~p.isPlaying /\ ~p.isPaused
    /\ p.bufferedSeconds = 0

startBuffering(p) ==
    /\ Changed(p, {"isConnected", "isPlaying", "isPaused", "bufferedSeconds"})
    /\ p.connection = "connected" /\ ~p.isPlaying /\ ~p.isPaused
    /\ p.bufferedSeconds = 0

\* the effects of one render, in the order of the hooks, then the play they called
effects(st) ==
    LET p == st.player
        last1 == IF shouldReplace(p) THEN p.decodedBuffer ELSE p.lastBufferDurationRef
        p1 == [p EXCEPT !.rendered = Rendered(p),
                        !.lastBufferDurationRef = IF resetTracking(p) THEN 0 ELSE last1,
                        !.isBuffering = IF startBuffering(p) THEN TRUE
                                        ELSE IF shouldAutoStart(p) \/ clearBuffering(p)
                                             THEN FALSE ELSE @]
        st1 == [st EXCEPT !.player = p1]
    IN  IF shouldAutoStart(p) \/ shouldReplace(p)
        THEN play(st1, p.decodedBuffer) ELSE st1

-----------------------------------------------------------------------------
(* useAudioStreamHandlers *)

\* useAudioStreamHandlers 36-59: handlePlay after its await, with the values
\* of the render it was created in; decoded is what tryDecode(true) leaves
handlePlayContinues(st, rendered, decoded) ==
    LET p == st.player
    IN  IF ~rendered.isConnected /\ ~rendered.isConnecting
        THEN [st EXCEPT !.player = [p EXCEPT !.isBuffering = TRUE,
                                             !.connection = "connecting"]]
        ELSE LET p1 == IF p.decodedBuffer = NoBuffer /\ p.bufferedSeconds > 0
                          /\ decoded # NoBuffer
                       THEN [p EXCEPT !.decodedBuffer = decoded,
                                      !.bufferedSeconds = decoded]
                       ELSE p
                 buffer == p1.decodedBuffer
                 st1 == [st EXCEPT !.player = p1]
             IN  IF rendered.isPaused THEN play(st1, buffer)
                 ELSE IF rendered.bufferedSeconds >= thresholdSeconds /\ buffer # NoBuffer
                      THEN play(st1, buffer)
                      ELSE [st1 EXCEPT !.player.isBuffering = TRUE]

\* useAudioStreamHandlers 32-35: handlePlay up to its await
handlePlay(st, decoded) ==
    LET p == ensureContext([st.player EXCEPT !.hasUserGestureRef = TRUE])
    IN  IF p.context = "running"
        THEN handlePlayContinues([st EXCEPT !.player = p], Closure(st.player), decoded)
        ELSE [st EXCEPT !.player = p,
                        !.playCalls = Append(@, [fn |-> "handlePlay",
                                                 audioBuffer |-> NoBuffer,
                                                 rendered |-> Closure(st.player)])]

\* useAudioStreamHandlers 72-78 on the coordinator: stop(), the state
\* disconnect() and resetDecoder() leave, setIsBuffering(false), setError(null)
handleStop(st) ==
    LET s1 == stop(st)
    IN  [s1 EXCEPT !.player = [s1.player EXCEPT !.connection = "idle",
                                                !.bufferedSeconds = 0,
                                                !.decodedBuffer = NoBuffer,
                                                !.isBuffering = FALSE,
                                                !.error = "null"]]

-----------------------------------------------------------------------------
(* The playback coordinator: actions *)

PlayOnly == UNCHANGED <<sliceVars, serverVars, connVars, msgVars, decVars>>

\* what a handler starts from: no source created yet in this step
CurrentStage == Stage(player, [sources EXCEPT !.started = FALSE], playCalls)

\* React runs the effects of a render before it handles the next event
EffectsPending == player.rendered # Rendered(player)

PlayEvent(name, source) == [name |-> name, source |-> source]

\* the handler or continuation name ran: the state it leaves
Becomes(st, name, source) ==
    /\ Len(st.playCalls) <= MaxCalls
    /\ player' = st.player
    /\ sources' = st.sources
    /\ playCalls' = st.playCalls
    /\ playEvent' = PlayEvent(name, source)

\* the effects of the latest render run
RunEffects ==
    /\ EffectsPending
    /\ Becomes(effects(CurrentStage), "effects", "none")
    /\ PlayOnly

\* ctx.currentTime advances while the context runs and a source plays
Tick(dt) ==
    /\ ~EffectsPending
    /\ player.context = "running" /\ player.sourceNodeRef # "null"
    /\ player.currentTime + dt <= MaxTime
    /\ Becomes([CurrentStage EXCEPT !.player.currentTime = @ + dt], "tick", "none")
    /\ PlayOnly

\* part_005 11-23: the first pointerdown or keydown anywhere in the window
UserGesture ==
    /\ ~EffectsPending
    /\ ~player.hasUserGestureRef
    /\ Becomes([CurrentStage EXCEPT !.player.hasUserGestureRef = TRUE], "gesture", "none")
    /\ PlayOnly

\* useWebRTCConnection renders the coordinator with a new connection state:
\* a reconnect timer called connect(), the channel opened, or the connection
\* was lost.  Timers are set only after handlePlay connected, which marks the
\* user gesture first.
ConnectionChanges(c) ==
    /\ ~EffectsPending
    /\ c = "connecting" => player.hasUserGestureRef
    /\ <<player.connection, c>> \in {<<"idle", "connecting">>, <<"connecting", "connected">>,
                                      <<"connecting", "idle">>, <<"connected", "idle">>}
    /\ Becomes([CurrentStage EXCEPT !.player.connection = c], "connection", "none")
    /\ PlayOnly

\* useAudioDecoder renders it with a new estimate (useAudioDecoder 79-81) or
\* with the duration of a new decoded unit (57-58)
DecoderUpdates(estimate, decoded) ==
    /\ ~EffectsPending
    /\ player.connection = "connected"    \* chunks arrive on an open channel
    /\ IF decoded = NoBuffer
       THEN /\ player.decodedBuffer = NoBuffer /\ estimate > player.bufferedSeconds
            /\ Becomes([CurrentStage EXCEPT !.player.bufferedSeconds = estimate],
                       "decoder", "none")
       ELSE /\ decoded > player.decodedBuffer
            /\ Becomes([CurrentStage EXCEPT !.player.decodedBuffer = decoded,
                                            !.player.bufferedSeconds = decoded],
                       "decoder", "none")
    /\ PlayOnly

\* useAudioStream 36-45: onError of the connection, which a connection attempt
\* or an open channel calls
OnStreamError ==
    /\ ~EffectsPending
    /\ player.error = "null" /\ player.connection # "idle"
    /\ Becomes([CurrentStage EXCEPT !.player.error = "error",
                                    !.player.isBuffering = FALSE], "onError", "none")
    /\ LET ran == onStreamError(decoder, decCalls.resets)
       IN  /\ decoder' = ran.decoder
           /\ awaiting' = awaiting \o ran.suspended
           /\ decEvent' = IF ran.result = "none" THEN decEvent
                          ELSE DecEvent("onError", NoCall, TRUE, ran.result)
    /\ UNCHANGED decCalls
    /\ UNCHANGED <<sliceVars, serverVars, connVars, msgVars>>

\* tryDecode(true) can leave a decoded unit when none exists and bytes are accumulated
CanDecode(decoded) ==
    decoded # NoBuffer => player.decodedBuffer = NoBuffer /\ player.bufferedSeconds > 0

\* the Play button (part_006 76-83: disabled while playing or showing an error)
HandlePlay(decoded) ==
    /\ ~EffectsPending
    /\ ~player.isPlaying /\ player.error = "null"
    /\ player.context = "running" => CanDecode(decoded)
    /\ player.context # "running" => decoded = NoBuffer
    /\ Becomes(handlePlay(CurrentStage, decoded), "handlePlay", "none")
    /\ PlayOnly

\* the Pause button (part_006 84-91: enabled while playing without an error)
HandlePause ==
    /\ ~EffectsPending
    /\ player.isPlaying /\ player.error = "null"
    /\ Becomes(pause(CurrentStage), "handlePause", "none")
    /\ PlayOnly

\* the Stop button, or retry after an error (useAudioStreamHandlers 83-84):
\* handleStop, with disconnect() and resetDecoder()
HandleStop ==
    /\ ~EffectsPending
    /\ Becomes(handleStop(CurrentStage), "handleStop", "none")
    /\ LET c == disconnect(hook, transports)
       IN  hook' = c.h /\ transports' = c.ts
    /\ onErrorCall' = NoError
    /\ decoder' = reset(decoder)
    /\ UNCHANGED <<awaiting, decCalls, decEvent>>
    /\ UNCHANGED <<sliceVars, serverVars, msgVars>>

\* resume() of the suspended context settles (a user gesture allows it; every
\* call is made after one): the calls that awaited it go on in their order
CallContinues(decoded) ==
    /\ ~EffectsPending
    /\ playCalls # <<>>
    /\ CanDecode(decoded)
    /\ Head(playCalls).fn = "play" => decoded = NoBuffer
    /\ LET call == Head(playCalls)
           st == Stage([player EXCEPT !.context = IF player.hasUserGestureRef
                                                 THEN "running" ELSE @],
                       CurrentStage.sources, Tail(playCalls))
       IN  IF call.fn = "play"
           THEN Becomes(playStarts(st, call.audioBuffer), "play", "none")
           ELSE Becomes(handlePlayContinues(st, call.rendered, decoded),
                        "handlePlay", "none")
    /\ PlayOnly

\* a source reports ended: the one of sourceNodeRef, which played to its end or
\* which the browser reports early, or one that was stopped; more tells that
\* other stopped sources have still to report
SourceEnded(active, more) ==
    /\ ~EffectsPending
    /\ IF active THEN player.sourceNodeRef # "null" /\ more = sources.stopped
       ELSE sources.stopped
    /\ Becomes(onEnded([CurrentStage EXCEPT !.sources.stopped = more], active),
               "ended", IF active THEN "active" ELSE "stopped")
    /\ PlayOnly

\* pause() of useAudioPlayback called in any state, as its caller may
Pause ==
    /\ ~EffectsPending
    /\ Becomes(pause(CurrentStage), "pause", "none")
    /\ PlayOnly

PlayNext ==
    \/ RunEffects
    \/ \E dt \in TimeSteps : Tick(dt)
    \/ UserGesture
    \/ \E c \in {"idle", "connecting", "connected"} : ConnectionChanges(c)
    \/ \E e \in Estimates : DecoderUpdates(e, NoBuffer)
    \/ \E d \in DecodedDurations : DecoderUpdates(0, d)
    \/ OnStreamError
    \/ \E d \in {NoBuffer} \cup DecodedDurations : HandlePlay(d)
    \/ HandlePause
    \/ HandleStop
    \/ \E d \in {NoBuffer} \cup DecodedDurations : CallContinues(d)
    \/ \E active, more \in BOOLEAN : SourceEnded(active, more)

PlayInit ==
    /\ player = PlayerInit
    /\ sources = SourcesInit
    /\ playCalls = <<>>
    /\ playEvent = PlayEvent("none", "none")

-----------------------------------------------------------------------------
(* Initial states and specifications *)

MsgIdle ==
    /\ msgChannel = "open"
    /\ delivered = <<>>
    /\ lastMessage = NoMessage([onMetadata |-> "absent", onError |-> "absent",
                                onComplete |-> "absent", onBinaryMessage |-> "absent"])

SliceIdle == sliceLen = 0 /\ sliceSize = 1 /\ sliceOut = <<>>

ServerIdle ==
    /\ assetState = "ok" /\ assetLen = 0
    /\ sess = <<>>
    /\ peerConnections = [id \in ConnIds |-> 0]
    /\ crashed = FALSE
    /\ reqCount = 0 /\ lastReq = NoRequest /\ lastResp = NoResponse
    /\ lastEvent = Event("none", 0, NotRead)
    /\ concurrent = FALSE

ServerInit ==
    /\ \/ assetState = "ok" /\ assetLen \in AssetLengths
       \/ assetState \in {"missing", "unreadable"} /\ assetLen = 0
    /\ sess = <<>>
    /\ peerConnections = [id \in ConnIds |-> 0]
    /\ crashed = FALSE
    /\ reqCount = 0 /\ lastReq = NoRequest /\ lastResp = NoResponse
    /\ lastEvent = Event("none", 0, NotRead)
    /\ concurrent = FALSE

\* chunk slicing alone
SliceSpecInit == SliceInit /\ ServerIdle /\ ConnInit /\ MsgIdle /\ DecInit /\ PlayInit
SliceNext == SliceNextChunk
SpecSlice == SliceSpecInit /\ [][SliceNext]_vars

\* the signaling endpoint and the chunk sender
Init == ServerInit /\ SliceIdle /\ ConnInit /\ MsgIdle /\ DecInit /\ PlayInit
Next == ServerNext
Spec == Init /\ [][Next]_vars

\* the signaling endpoint where clients connect while a session is live
RegistryInit ==
    /\ assetState = "ok" /\ assetLen = CHUNK_SIZE + 1
    /\ sess = <<>>
    /\ peerConnections = [id \in ConnIds |-> 0]
    /\ crashed = FALSE
    /\ reqCount = 0 /\ lastReq = NoRequest /\ lastResp = NoResponse
    /\ lastEvent = Event("none", 0, NotRead)
    /\ concurrent = TRUE
RegistrySpecInit == RegistryInit /\ SliceIdle /\ ConnInit /\ MsgIdle /\ DecInit /\ PlayInit
SpecRegistry == RegistrySpecInit /\ [][Next]_vars

\* the connection lifecycle manager
ConnSpecInit == ConnInit /\ ServerIdle /\ SliceIdle /\ MsgIdle /\ DecInit /\ PlayInit
SpecConn == ConnSpecInit /\ [][ConnNext]_vars

\* the message handlers of the data channel
MsgSpecInit == MsgInit /\ ServerIdle /\ SliceIdle /\ ConnInit /\ DecInit /\ PlayInit
SpecMsg == MsgSpecInit /\ [][MsgNext]_vars

\* the progressive decoder alone
DecSpecInit == DecInit /\ ServerIdle /\ SliceIdle /\ ConnInit /\ MsgIdle /\ PlayInit
SpecDec == DecSpecInit /\ [][DecNext]_vars

\* the playback coordinator
PlaySpecInit == PlayInit /\ ServerIdle /\ SliceIdle /\ ConnInit /\ MsgIdle /\ DecInit
SpecPlay == PlaySpecInit /\ [][PlayNext]_vars

\* The hooks of the coordinator rendered with any props: useAutoStartPlayback
\* and useBufferReplacement take isBuffering, bufferedSeconds, the gesture and
\* the decoded unit from their caller
PropsInit ==
    /\ player \in {[PlayerInit EXCEPT !.isBuffering = b, !.hasUserGestureRef = g,
                                      !.bufferedSeconds = d, !.decodedBuffer = d,
                                      !.connection = c] :
                        b \in BOOLEAN, g \in BOOLEAN,
                        d \in {NoBuffer} \cup DecodedDurations,
                        c \in {"idle", "connected"}}
    /\ sources = SourcesInit
    /\ playCalls = <<>>
    /\ playEvent = PlayEvent("none", "none")

PropsSpecInit == PropsInit /\ ServerIdle /\ SliceIdle /\ ConnInit /\ MsgIdle /\ DecInit
SpecProps == PropsSpecInit /\ [][PlayNext]_vars

\* The decoder of a coordinator that is connected and buffering after Play:
\* the chunks of one stream arrive and its connection reports an error
SalvageInit ==
    /\ player = LET p == [PlayerInit EXCEPT !.hasUserGestureRef = TRUE,
                                            !.context = "running",
                                            !.connection = "connected",
                                            !.isBuffering = TRUE]
                IN  [p EXCEPT !.rendered = Rendered(p)]
    /\ sources = SourcesInit
    /\ playCalls = <<>>
    /\ playEvent = PlayEvent("none", "none")

SalvageSpecInit == SalvageInit /\ DecInit /\ ServerIdle /\ SliceIdle /\ ConnInit /\ MsgIdle
SalvageNext ==
    \/ AudioContextInit
    \/ \E size \in ChunkSizes : AddChunk(size)
    \/ \E i \in 1..Len(awaiting), ok \in BOOLEAN : EnsureContextSettles(i, ok)
    \/ \E i \in 1..Len(awaiting), ok \in BOOLEAN : DecodeSettles(i, ok)
    \/ OnStreamError
SpecSalvage == SalvageSpecInit /\ [][SalvageNext]_vars

\* One stream played by a coordinator whose pause() is called in any state
PauseNext ==
    \/ RunEffects
    \/ \E dt \in TimeSteps : Tick(dt)
    \/ \E c \in {"idle", "connecting", "connected"} : ConnectionChanges(c)
    \/ \E e \in Estimates : DecoderUpdates(e, NoBuffer)
    \/ \E d \in DecodedDurations : DecoderUpdates(0, d)
    \/ \E d \in {NoBuffer} \cup DecodedDurations : HandlePlay(d)
    \/ Pause
    \/ \E active, more \in BOOLEAN : SourceEnded(active, more)

SpecPause == PlaySpecInit /\ [][PauseNext]_vars

\* The Stop button on a coordinator whose connection is at work
StopNext == ConnNext \/ HandleStop
SpecStop == ConnSpecInit /\ [][StopNext]_vars

\* the sender, with the scheduling of an uninterrupted session: a pending pacing
\* timer fires, and the channel's send buffer drains below the mark in the end
SpecSenderFair ==
    Spec /\ \A s \in 1..MaxSessions : WF_vars(s \in SessionIds /\ TimerFiresWith(s, 0, TRUE))

-----------------------------------------------------------------------------
(* Properties of the chunk sender *)

TypeCount(log, ty) == Cardinality({p \in 1..Len(log) : log[p].type = ty})
ChunkEntries(log) == SelectSeq(log, LAMBDA m : m.type = "chunk")
Added(before, after) == SubSeq(after, Len(before) + 1, Len(after))
SomeChunk(log) == \E p \in 1..Len(log) : log[p].type = "chunk"

\* C1: on an opened channel with a readable asset the metadata send is issued
\* exactly once, as the first send, and the chunk sends carry the indices
\* 0, 1, 2, ... in this order: none skipped, none repeated.
C1_SenderOrdering ==
    \A s \in SessionIds :
        LET log == sess[s].sent
            cs  == ChunkEntries(log)
        IN  /\ TypeCount(log, "metadata") <= 1
            /\ (sess[s].opened /\ assetState = "ok") =>
                   /\ Len(log) >= 1
                   /\ log[1].type = "metadata"
                   /\ TypeCount(log, "metadata") = 1
            /\ cs # <<>> => (log[1].type = "metadata" /\ log[1].ok)
            /\ \A k \in 1..Len(cs) : cs[k].index = k - 1

\* a 200000 byte asset whose four chunks have all been sent
C1_Witness ==
    \E s \in SessionIds :
        /\ assetLen = 200000
        /\ Len(ChunkEntries(sess[s].sent)) = 4
        /\ \A p \in 1..Len(sess[s].sent) : sess[s].sent[p].ok

CompleteSent(s) ==
    \E p \in 1..Len(sess[s].sent) : sess[s].sent[p].type = "complete" /\ sess[s].sent[p].ok

\* the channel left open, the connection failed, a send threw, or the loop was stopped
Interrupted(s) ==
    \/ crashed
    \/ sess[s].readyState # "open"
    \/ sess[s].connectionState \in TerminalPc
    \/ \E p \in 1..Len(sess[s].sent) : ~sess[s].sent[p].ok
    \/ ~sess[s].streamingActive /\ ~CompleteSent(s)

Streaming(s) == s \in SessionIds /\ sess[s].opened /\ assetState = "ok"

C2_CompleteIsLast ==
    \A s \in SessionIds :
        LET log == sess[s].sent
        IN  \A p \in 1..Len(log) :
                (log[p].type = "complete" /\ log[p].ok) =>
                    /\ p = Len(log)
                    /\ TypeCount(log, "complete") = 1
                    /\ Len(ChunkEntries(log)) = sess[s].totalChunks

\* nothing is left to run for the session: uninterrupted, and no pacing timer pending
Quiescent(s) == Streaming(s) /\ ~Interrupted(s) /\ ~sess[s].timerPending

\* C2: in an uninterrupted session the sender eventually sends one complete
\* message; it follows the final chunk and nothing is sent after it. So an
\* uninterrupted session with nothing left to run has sent it.
C2_SenderCompletion ==
    /\ []C2_CompleteIsLast
    /\ [](\A s \in SessionIds : Quiescent(s) => CompleteSent(s))
    /\ \A s \in 1..MaxSessions :
           Streaming(s) ~> (s \in SessionIds /\ (CompleteSent(s) \/ Interrupted(s)))

\* C3: a chunk send is issued only after bufferedAmount read below 262144, and
\* it sends the chunk at the cursor; a sendChunk that reads 262144 or more sends
\* no chunk, leaves chunkIndex alone and re-arms the pacing timer.
C3_FlowControl ==
    [][\A s \in SessionIds :
          (lastEvent'.s = s /\ lastEvent'.name \in {"OnOpen", "TimerFires"}) =>
              LET new == Added(sess[s].sent, sess'[s].sent)
              IN  /\ \A p \in 1..Len(new) :
                         new[p].type = "chunk" =>
                             /\ lastEvent'.amount # NotRead
                             /\ lastEvent'.amount < 262144
                             /\ new[p].index = sess[s].chunkIndex
                  /\ lastEvent'.amount >= 262144 =>
                         /\ ~SomeChunk(new)
                         /\ sess'[s].chunkIndex = sess[s].chunkIndex
                         /\ sess'[s].timerPending
      ]_vars

\* the pacing timer fired mid-stream, read a full buffer and deferred chunk 2
C3_Witness ==
    \E s \in SessionIds :
        /\ lastEvent = Event("TimerFires", s, 262144)
        /\ sess[s].chunkIndex = 2
        /\ sess[s].timerPending
        /\ Len(ChunkEntries(sess[s].sent)) = 2

ChunkSize(c) == c.end - c.start

\* C4: totalChunks is ceil(totalBytes / chunkSize); chunk i is the byte range
\* [i*chunkSize, min((i+1)*chunkSize, totalBytes)); every chunk but the last
\* has chunkSize bytes, none is empty, consecutive chunks are adjacent, and
\* chunks 0..totalChunks-1 together are the whole asset.
C4_ChunkSlicing ==
    LET n == TotalChunks(sliceLen, sliceSize)
        k == Len(sliceOut)
    IN  /\ n >= 0
        /\ n * sliceSize >= sliceLen
        /\ n > 0 => (n - 1) * sliceSize < sliceLen
        /\ k <= n
        /\ \A i \in 0..(k - 1) :
               LET c == sliceOut[i + 1]
               IN  /\ c.start = i * sliceSize
                   /\ c.end = IF (i + 1) * sliceSize < sliceLen
                              THEN (i + 1) * sliceSize ELSE sliceLen
                   /\ ChunkSize(c) > 0
                   /\ i < n - 1 => ChunkSize(c) = sliceSize
                   /\ i > 0 => c.start = sliceOut[i].end
        /\ k = n => (IF k = 0 THEN sliceLen = 0
                     ELSE sliceOut[1].start = 0 /\ sliceOut[k].end = sliceLen)
        /\ (sliceLen = 200000 /\ sliceSize = 65536 /\ k = n) =>
               [i \in 1..k |-> ChunkSize(sliceOut[i])] = <<65536, 65536, 65536, 3392>>

\* the 200000 byte asset cut into its four chunks
C4_Witness ==
    /\ sliceLen = 200000 /\ sliceSize = 65536
    /\ Len(sliceOut) = 4
    /\ ChunkSize(sliceOut[4]) = 3392

StopCondition(r) ==
    \/ ~r.streamingActive
    \/ r.readyState \in {"closing", "closed"}
    \/ r.connectionState \in {"failed", "disconnected", "closed"}

C7_SendFailureNotified ==
    \A s \in SessionIds :
        LET log == sess[s].sent
        IN  \A p \in 1..Len(log) :
                (log[p].type = "chunk" /\ ~log[p].ok) =>
                    /\ ~sess[s].streamingActive
                    /\ ~sess[s].timerPending
                    /\ p < Len(log)
                    /\ log[p + 1].type = "error"
                    /\ sess[s].readyState \in {"closing", "closed"}

StructurallyValid(o) ==
    /\ o.defined
    /\ o.type \notin {Undefined, ""}
    /\ o.sdp \notin {Undefined, ""}

-----------------------------------------------------------------------------
(* Properties of the connection lifecycle manager *)

\* a call of connect went past its first line: only connect creates a transport
ConnectCall == Len(transports') = Len(transports) + 1

\* the peer connection of transport t reached 'connected' in this step
ReachedConnected(t) ==
    transports[t].connectionState # "connected" /\ transports'[t].connectionState = "connected"

\* C9: connect() reports connecting at once; isConnected becomes true only by
\* the open event of the data channel of the current transport; the peer
\* connection reaching 'connected' leaves isConnected as it was.
C9_ConnectedOnlyOnOpen ==
    /\ [][ConnectCall => (hook'.isConnecting /\ ~hook'.isConnected)]_vars
    /\ [][(hook'.isConnected /\ ~hook.isConnected) =>
              \E t \in TransportIds :
                  /\ t = Len(transports)
                  /\ t = hook.peerConnectionRef
                  /\ DataChannelOpen(t)]_vars
    /\ [][\A t \in TransportIds :
              ReachedConnected(t) => hook'.isConnected = hook.isConnected]_vars

\* the peer connection is connected, the channel has not opened yet: still connecting
C9_Witness ==
    /\ hook.peerConnectionRef # None
    /\ transports[hook.peerConnectionRef].connectionState = "connected"
    /\ transports[hook.peerConnectionRef].readyState = "connecting"
    /\ hook.isConnecting
    /\ ~hook.isConnected

\* a handler of transport t ran, one of those that call handleReconnect
FailureOf(t) ==
    \/ SignalingSettles(t)
    \/ ConnectionStateChange(t)
    \/ ConnectionClosedEvent(t)
    \/ DataChannelError(t)

RetryScheduled == PendingTimers(hook') > PendingTimers(hook)

\* C11: the delays before reconnect attempts 1, 2 and 3 are 500 ms, 1000 ms
\* and 2000 ms.
C11_BackoffDelays ==
    [][RetryScheduled =>
          hook'.timeoutDelay = CASE hook'.reconnectAttemptRef = 1 -> 500
                                 [] hook'.reconnectAttemptRef = 2 -> 1000
                                 [] hook'.reconnectAttemptRef = 3 -> 2000
                                 [] OTHER -> -1]_vars

\* C12: in an auto-triggered session each of three consecutive failures
\* schedules a retry, up to reconnectAttempt = 3; a failure at 3 schedules no
\* fourth retry, and the error callback is invoked only by a failure for which
\* no retry is scheduled.
C12_TerminalErrorInsteadOfRetry ==
    /\ [][hook.reconnectAttemptRef = maxReconnectAttempts => ~RetryScheduled]_vars
    /\ [][onErrorCall' # NoError => ~RetryScheduled]_vars

\* the data channel of transport t reported open in this step
ChannelOpened(t) ==
    transports[t].readyState = "connecting" /\ transports'[t].readyState = "open"

\* C13: whenever the data channel reports open, reconnectAttempt is set to 0.
C13_AttemptResetOnOpen ==
    [][\A t \in TransportIds : ChannelOpened(t) => hook'.reconnectAttemptRef = 0]_vars

\* the channel opened after a retry had been scheduled: the timer is still
\* pending, the counter is back at 0
C13_Witness ==
    /\ hook.peerConnectionRef # None
    /\ transports[hook.peerConnectionRef].readyState = "open"
    /\ hook.isConnected
    /\ hook.reconnectTimeoutRef = "pending"
    /\ hook.reconnectAttemptRef = 0

\* C14: after disconnect() returns, reconnectAttempt is 0, whatever it was
\* before the call.
C14_AttemptResetOnDisconnect ==
    [][Disconnect => hook'.reconnectAttemptRef = 0]_vars

\* disconnect() ran: nothing else sets the manual flag
ManualFlagSet == ~hook.manualDisconnectRef /\ hook'.manualDisconnectRef

\* C15: disconnect() schedules nothing; while the manual flag it sets is set
\* (until the next connect() clears it) the state is disconnected and no event
\* of a torn-down transport schedules a retry, even for an auto-triggered
\* session.
C15_ManualDisconnectSuppressesReconnect ==
    /\ [](hook.manualDisconnectRef => (~hook.isConnected /\ ~hook.isConnecting))
    /\ [][/\ ManualFlagSet => PendingTimers(hook') <= PendingTimers(hook)
          /\ hook.manualDisconnectRef => ~RetryScheduled
          /\ (hook.manualDisconnectRef /\ ~hook'.manualDisconnectRef) => ConnectCall]_vars

\* the signaling of an auto-triggered session failed after disconnect(): no
\* retry was counted or scheduled
C15_Witness ==
    /\ hook.manualDisconnectRef
    /\ Len(transports) = 1
    /\ transports[1].isAuto
    /\ transports[1].signaling = "failed"
    /\ hook.reconnectAttemptRef = 0
    /\ PendingTimers(hook) = 0

\* transport t is the session in use, started by connect({ isAuto: false })
CurrentManualSession(t) ==
    /\ t = hook.peerConnectionRef
    /\ ~transports[t].isAuto
    /\ ~hook.manualDisconnectRef

\* the signaling of transport t failed in this step
SignalingFailed(t) ==
    transports[t].signaling = "pending" /\ transports'[t].signaling = "failed"

\* transport t failed in this step, after its channel had opened
PostOpenFailure(t) ==
    /\ transports[t].readyState = "open"
    /\ \/ /\ transports'[t].connectionState \in {"failed", "disconnected"}
          /\ transports'[t].connectionState # transports[t].connectionState
       \/ DataChannelError(t)

\* C16: in a session that is not auto-triggered, a signaling failure in
\* connect() and a transport failure after the channel opened each invoke the
\* error callback with a message.
C16_ErrorSurface ==
    [][\A t \in TransportIds :
          (CurrentManualSession(t) /\ (SignalingFailed(t) \/ PostOpenFailure(t))) =>
              onErrorCall' # NoError]_vars

-----------------------------------------------------------------------------
(* Properties of the message handlers *)

\* the latest message was textual and parsed as JSON
ParsedText == lastMessage.data.kind = "string" /\ JsonParse(lastMessage.data.body).ok

\* the callback a control message of this type goes to, and its argument
Matching(type) ==
    CASE type = "metadata" -> "onMetadata"
      [] type = "error"    -> "onError"
      [] type = "complete" -> "onComplete"
      [] OTHER             -> "none"

MatchingArg(m, body) ==
    CASE m.type = "metadata" -> body
      [] m.type = "error"    -> IF m.message \in {Undefined, ""}
                                THEN "An error occurred while streaming" ELSE m.message
      [] OTHER               -> ""

\* the calls expected of a control message, given the callbacks that are there
ExpectedCalls(m, body, cb) ==
    LET name == Matching(m.type)
    IN  IF name = "none" \/ cb[name] = "absent"
        THEN <<>>
        ELSE <<[cb |-> name, arg |-> MatchingArg(m, body)]>>

MatchingThrows(m, cb) ==
    Matching(m.type) # "none" /\ cb[Matching(m.type)] = "throws"

\* C17 as stated: every textual payload that parses as JSON gets exactly the
\* callback matching its type called (none for an unknown type), true
\* returned, and the channel closed if and only if the type is error.
C17_DispatchReturnsTrue ==
    ParsedText =>
        LET m == JsonParse(lastMessage.data.body)
            out == lastMessage.out
        IN  /\ out.calls = ExpectedCalls(m, lastMessage.data.body, lastMessage.cb)
            /\ out.returned = "true"
            /\ out.closed <=> (m.type = "error")
            /\ ~out.threw

\* C17: a textual payload that parses as JSON gets exactly the callback
\* matching its type called, none for an unknown type or a value without type,
\* and nothing is thrown. If that callback returns (or is absent), true is
\* returned and the channel is closed if and only if the type is error. If it
\* throws, or the payload is the JSON value null, false is returned and the
\* channel is not closed.
C17_ControlMessageDispatch ==
    ParsedText =>
        LET m == JsonParse(lastMessage.data.body)
            out == lastMessage.out
            calls == IF m.kind = "null" THEN <<>>
                     ELSE ExpectedCalls(m, lastMessage.data.body, lastMessage.cb)
        IN  /\ out.calls = calls
            /\ ~out.threw
            /\ IF m.kind = "null" \/ MatchingThrows(m, lastMessage.cb)
               THEN out.returned = "false" /\ ~out.closed
               ELSE out.returned = "true" /\ (out.closed <=> (m.type = "error"))
            /\ msgChannel = IF out.closed THEN "closing" ELSE "open"

\* an error message was dispatched to onError and the channel closed
C17_Witness ==
    /\ lastMessage.data.body = "{\"type\":\"error\",\"message\":\"Test error\"}"
    /\ lastMessage.out.calls = <<[cb |-> "onError", arg |-> "Test error"]>>
    /\ lastMessage.out.returned = "true"
    /\ lastMessage.out.closed
    /\ msgChannel = "closing"

\* the message handled in this step is text that is no JSON
MalformedText(msg) == msg.data.kind = "string" /\ ~JsonParse(msg.data.body).ok

\* C18: for a textual payload that is not valid JSON, handleJsonMessage
\* returns false, calls no callback, does not close the channel and does not
\* throw; the connection state and the payloads accumulated stay as they were.
C18_MalformedTextSwallowed ==
    /\ [](MalformedText(lastMessage) =>
              lastMessage.out = Outcome(<<>>, FALSE, "false", FALSE))
    /\ [][MalformedText(lastMessage') =>
              /\ msgChannel' = msgChannel
              /\ delivered' = delivered
              /\ UNCHANGED <<hook, transports, onErrorCall>>]_vars

\* malformed text arrived after binary payloads had been taken
C18_Witness ==
    /\ lastMessage.data.body = "invalid json"
    /\ lastMessage.out.returned = "false"
    /\ \E k \in CallbackKinds \ {"absent"} : lastMessage.cb.onError = k
    /\ Len(delivered) > 0
    /\ msgChannel = "open"

-----------------------------------------------------------------------------
(* Properties of the progressive decoder *)

\* the byte-wise concatenation of chunks: chunk k lies behind the k-1 before it
Concatenation(chunks) ==
    [byteLength |-> TotalLength(chunks),
     parts |-> [k \in 1..Len(chunks) |->
                   <<chunks[k].id, TotalLength(SubSeq(chunks, 1, k - 1)),
                     chunks[k].byteLength>>]]

\* C19: once addChunk has been called N >= 1 times since the last reset, the
\* accumulation buffer is the concatenation of those N chunks in arrival
\* order; and no step other than reset makes the buffer shorter, whatever
\* decodes settle in between.
C19_AccumulationOrder ==
    /\ [](decCalls.sinceReset # <<>> =>
             decoder.accumulatedBuffer = Concatenation(decCalls.sinceReset))
    /\ [][decEvent'.name # "reset" =>
             decoder'.accumulatedBuffer.byteLength
                 >= decoder.accumulatedBuffer.byteLength]_vars

\* three chunks are accumulated, of two sizes, and a decode of an earlier,
\* shorter snapshot has just resolved
C19_Witness ==
    /\ Len(decCalls.sinceReset) = 3
    /\ decCalls.sinceReset[1].byteLength # decCalls.sinceReset[2].byteLength
    /\ decEvent.name = "decodeAudioData" /\ decEvent.ok
    /\ decEvent.call.snapshot.byteLength < decoder.accumulatedBuffer.byteLength
    /\ decEvent.call.snapshot.byteLength > 0

\* C20: when a decode resolves, the decoded unit becomes the audio of the
\* snapshot that was decoded and lastDecodedBytes becomes the byte size of
\* that snapshot, which is not below its value before; when a decode rejects,
\* the decoded unit and lastDecodedBytes stay as they were and tryDecode
\* returns null instead of throwing; either way isDecoding is false afterwards.
C20_DecodeOutcomes ==
    [][decEvent'.name = "decodeAudioData" =>
          /\ decEvent'.ok =>
                /\ decoder'.decodedBuffers = <<[decodedFrom |-> decEvent'.call.snapshot]>>
                /\ decoder'.lastDecodedBytes = decEvent'.call.snapshot.byteLength
                /\ decoder'.lastDecodedBytes >= decoder.lastDecodedBytes
          /\ ~decEvent'.ok =>
                /\ decoder'.decodedBuffers = decoder.decodedBuffers
                /\ decoder'.lastDecodedBytes = decoder.lastDecodedBytes
                /\ decEvent'.result = "null"
          /\ ~decoder'.isDecoding]_vars

\* the decodes in flight: the tryDecode calls suspended at decodeAudioData
InFlight(calls) == {i \in 1..Len(calls) : calls[i].at = "decodeAudioData"}

\* C21: at most one decode is in flight in every reachable state, and no
\* call (addChunk, tryDecode(true), tryDecode()) made while a decode is in
\* flight starts another one.
C21_SerializedDecodes ==
    /\ [](Cardinality(InFlight(awaiting)) <= 1)
    /\ [][InFlight(awaiting) # {} =>
             Cardinality(InFlight(awaiting')) <= Cardinality(InFlight(awaiting))]_vars

\* C29: once the complete message has been received and every decode has
\* settled, the last of them resolving, lastDecodedBytes is the byte length
\* of the whole accumulation: the forced decode of onComplete has covered
\* the tail, whatever was in flight when the message arrived.
C29_CompletionDecodesTail ==
    [][/\ decEvent'.name = "decodeAudioData" /\ decEvent'.ok
       /\ decCalls'.complete /\ awaiting' = <<>>
       => decoder'.lastDecodedBytes = decoder'.accumulatedBuffer.byteLength]_vars

-----------------------------------------------------------------------------
(* Reconnect timers at teardown *)

\* C30: at most one reconnect timer is pending in every reachable state, and
\* a teardown (disconnect(), or the cleanup of a connect() that goes on to
\* create a connection) leaves no reconnect timer pending: none scheduled
\* before it can still fire and call connect.
C30_TeardownCancelsTimers ==
    /\ [](PendingTimers(hook) <= 1)
    /\ [][ConnectCall \/ ManualFlagSet => PendingTimers(hook') = 0]_vars

-----------------------------------------------------------------------------
(* Properties of the playback coordinator *)

\* the effects of a render called play(): a source started or a call waits
EffectsCalledPlay ==
    /\ playEvent'.name = "effects"
    /\ sources'.started \/ Len(playCalls') > Len(playCalls)

\* C22: the effects of a render begin playback of a coordinator that is not
\* playing only when it is buffering, not paused, a decoded unit exists,
\* bufferedSeconds has reached bufferThresholdSeconds and a user gesture has
\* occurred; below the threshold the effects leave a buffering coordinator
\* buffering and start no source.
C22_AutoStartGuard ==
    [][/\ EffectsCalledPlay /\ ~player.isPlaying
          => /\ player.isBuffering /\ ~player.isPaused
             /\ player.decodedBuffer # NoBuffer
             /\ player.bufferedSeconds >= thresholdSeconds
             /\ player.hasUserGestureRef
       /\ /\ playEvent'.name = "effects"
          /\ player.isBuffering /\ ~player.isPlaying
          /\ player.bufferedSeconds < thresholdSeconds
          => player'.isBuffering /\ ~sources'.started /\ playCalls' = playCalls]_vars

\* auto-start started a source
C22_Witness ==
    /\ playEvent.name = "effects" /\ sources.started
    /\ ~player.rendered.isPlaying /\ player.isPlaying

\* ready but waiting on a gesture
WaitingOnGesture(p) ==
    /\ p.isBuffering /\ ~p.isPlaying /\ ~p.isPaused
    /\ p.bufferedSeconds >= thresholdSeconds /\ p.decodedBuffer # NoBuffer
    /\ ~p.hasUserGestureRef

C24_PausePosition ==
    [][/\ playEvent'.name = "handlePause" /\ player.sourceNodeRef # "null"
          => player'.pausedTimeRef =
                 player.playbackOffsetRef + (player.currentTime - player.startTimeRef)
       /\ sources'.started /\ player.isPaused /\ player.sourceNodeRef = "null"
          => sources'.playing.offset = player.pausedTimeRef]_vars

\* C25: handleStop leaves isPlaying, isPaused and isBuffering false, the
\* playback offset and the pause offset 0, the connection manually
\* disconnected, the accumulator reset, the error cleared and no timer
\* pending; a second handleStop changes nothing.
C25_StopFromAnyState ==
    [][HandleStop
       => /\ ~player'.isPlaying /\ ~player'.isPaused /\ ~player'.isBuffering
          /\ player'.playbackOffsetRef = 0 /\ player'.pausedTimeRef = 0
          /\ player'.sourceNodeRef = "null" /\ sources'.playing = NoSource
          /\ hook'.manualDisconnectRef /\ ~hook'.isConnected /\ ~hook'.isConnecting
          /\ decoder'.rawChunks = <<>> /\ decoder'.accumulatedBuffer = NullBuffer
          /\ player'.error = "null"
          /\ PendingTimers(hook') = 0
          /\ handleStop(Stage(player', sources', playCalls')).player = player'
          /\ disconnect(hook', transports') = [h |-> hook', ts |-> transports']
          /\ reset(decoder') = decoder']_vars

\* the condition of the replacement against the duration used, the baseline
ReplacementDue(p, used) ==
    LET currentDuration == p.decodedBuffer
    IN  /\ 10 * currentDuration > 11 * used
        /\ \/ currentDuration - getCurrentPlaybackPosition(p) > 500
           \/ currentDuration > used + 200

\* C26: while a source plays, the effects of a render replace it if and only
\* if the duration of the current decoded unit exceeds the duration the
\* present source was started with by more than 10% and either more than 5 s
\* remain ahead of the play position or the duration grew by more than 2 s.
C26_ReplacementCondition ==
    [][/\ playEvent'.name = "effects"
       /\ player.isPlaying /\ player.sourceNodeRef # "null"
       /\ player.decodedBuffer # NoBuffer
       => (EffectsCalledPlay
             <=> ReplacementDue(player, player.currentBufferDurationRef))]_vars

\* C27: when a playing source is replaced, the new source starts in the new
\* decoded unit at the elapsed position of the old one (the offset it started
\* at plus the time since it started), the position is counted from there, and
\* the duration baseline of the replacement becomes the new unit's duration.
C27_ReplacementPreservesPosition ==
    [][/\ playEvent'.name = "effects" /\ sources'.started
       /\ player.isPlaying /\ player.sourceNodeRef # "null"
       => LET elapsed == player.playbackOffsetRef
                           + (player.currentTime - player.startTimeRef)
          IN  /\ sources'.playing = [buffer |-> player.decodedBuffer, offset |-> elapsed]
              /\ player'.playbackOffsetRef = elapsed
              /\ player'.startTimeRef = player'.currentTime
              /\ player'.currentBufferDurationRef = player.decodedBuffer
              /\ player'.lastBufferDurationRef = player.decodedBuffer
              /\ player'.isPlaying]_vars

\* a source playing a 10 s unit was replaced at 5 s by one playing an 11.5 s unit
C27_Witness ==
    /\ playEvent.name = "effects" /\ sources.started /\ player.rendered.isPlaying
    /\ sources.playing = [buffer |-> 1150, offset |-> 500]
    /\ player.lastBufferDurationRef = 1150

\* the elapsed position has reached 99% of the duration the source started with
NearEnd(p) ==
    100 * (p.playbackOffsetRef + (p.currentTime - p.startTimeRef))
        >= 99 * p.currentBufferDurationRef

\* C28: an ended signal ends playback only if it comes from the active source
\* at an elapsed position of at least 99% of the duration active when that
\* source started, and then it does; an ended signal from a replaced or
\* stopped source, or below 99%, leaves the playback state unchanged.
C28_EndOfContent ==
    [][playEvent'.name = "ended"
       => IF playEvent'.source = "active" /\ NearEnd(player)
          THEN /\ ~player'.isPlaying /\ player'.sourceNodeRef = "null"
               /\ sources'.playing = NoSource
          ELSE player' = player /\ sources'.playing = sources.playing]_vars

\* the ended signal of the active source, 10 s after its start, ended playback
C28_Witness ==
    /\ playEvent = PlayEvent("ended", "active")
    /\ ~player.isPlaying /\ player.sourceNodeRef = "null"
    /\ player.currentTime - player.startTimeRef = 1000
    /\ player.decodedBuffer = 1010

-----------------------------------------------------------------------------
(* The decode trigger of addChunk *)

\* a call reached decodeAudioData in this step
DecodeStarted == Cardinality(InFlight(awaiting')) > Cardinality(InFlight(awaiting))

\* C31: with the audio context at hand, addChunk starts a decode exactly when
\* no decode is in flight and either no decoded unit exists and the estimate
\* of the accumulated bytes reaches bufferThresholdSeconds, or a decoded unit
\* exists and the accumulated size has grown by at least 20% over
\* lastDecodedBytes.
C31_DecodeTrigger ==
    [][decEvent'.name = "addChunk" /\ decoder.audioContext
       => LET totalBytes == decoder'.accumulatedBuffer.byteLength
          IN  DecodeStarted
                <=> /\ InFlight(awaiting) = {}
                    /\ \/ /\ Len(decoder.decodedBuffers) = 0
                          /\ EstimateAtLeast(totalBytes, bufferThresholdSeconds)
                       \/ /\ Len(decoder.decodedBuffers) > 0
                          /\ 5 * totalBytes >= 6 * decoder.lastDecodedBytes]_vars

-----------------------------------------------------------------------------
(* Further properties of the playback coordinator *)

\* connected with nothing buffered, neither playing nor paused
ConnectedEmpty(p) ==
    /\ p.connection = "connected" /\ p.bufferedSeconds = 0
    /\ ~p.isPlaying /\ ~p.isPaused

C33_NonResumeStartsAtZero ==
    [][/\ sources'.started /\ ~player.isPlaying /\ ~player.isPaused
          => sources'.playing.offset = 0
       /\ /\ playEvent'.name = "handlePlay" /\ player.context = "running"
          /\ player.connection # "idle" /\ ~player.isPaused
          /\ player.bufferedSeconds < thresholdSeconds
          => ~sources'.started /\ player'.isBuffering]_vars

-----------------------------------------------------------------------------
(* Errors of the connection and the accumulation *)

-----------------------------------------------------------------------------
(* Calls suspended at the audio context *)

\* a call of play() that waited for the audio context goes on in this step
PlayCallResumes ==
    /\ playCalls # <<>> /\ Head(playCalls).fn = "play"
    /\ playCalls' = Tail(playCalls)

\* C35: a call of play() that was suspended at the audio context when stop()
\* ran (the decoded unit it was called with is gone since) starts no source
\* and does not make isPlaying true when it resumes: the idle state stays.
C35_StopInvalidatesStart ==
    [][PlayCallResumes /\ player.decodedBuffer = NoBuffer /\ ~player.isPlaying
       => ~sources'.started /\ ~player'.isPlaying]_vars

-----------------------------------------------------------------------------
(* pause() and the playback flags *)

\* C36: pause() called when no source is active changes neither isPlaying,
\* isPaused nor the recorded pause offset; called while a source plays it
\* leaves isPlaying false and isPaused true.
C36_PauseOnlyWhilePlaying ==
    [][playEvent'.name \in {"pause", "handlePause"}
       => IF player.sourceNodeRef = "null"
          THEN /\ player'.isPlaying = player.isPlaying
               /\ player'.isPaused = player.isPaused
               /\ player'.pausedTimeRef = player.pausedTimeRef
               /\ sources'.playing = sources.playing
          ELSE /\ ~player'.isPlaying /\ player'.isPaused
               /\ player'.sourceNodeRef = "null" /\ sources'.playing = NoSource]_vars

\* pause() was called on a coordinator that was buffering: it still is, unpaused
C36_Witness ==
    /\ playEvent.name = "pause" /\ player.sourceNodeRef = "null"
    /\ player.isBuffering /\ ~player.isPlaying /\ ~player.isPaused
    /\ player.pausedTimeRef = 0

-----------------------------------------------------------------------------
(* reset() and the decodes in flight *)

\* the snapshot a call decodes holds bytes of a chunk that arrived before the
\* last reset()
FromBeforeReset(call) ==
    \E k \in 1..Len(call.snapshot.parts) :
        \A j \in 1..Len(decCalls.sinceReset) :
            decCalls.sinceReset[j].id # call.snapshot.parts[k][1]

\* C37: a decode that was in flight when reset() ran changes neither the
\* decoded unit, lastDecodedBytes nor bufferedSeconds when it settles: what
\* reset() cleared stays cleared until a decode of the new stream succeeds.
C37_ResetNotUndone ==
    [][decEvent'.name = "decodeAudioData" /\ FromBeforeReset(decEvent'.call)
       => /\ decoder'.decodedBuffers = decoder.decodedBuffers
          /\ decoder'.lastDecodedBytes = decoder.lastDecodedBytes
          /\ decoder'.bufferedSeconds = decoder.bufferedSeconds]_vars

-----------------------------------------------------------------------------
(* The playback flags and the source of sourceNodeRef *)

\* C38: in every reachable state isPlaying and isPaused are not both true,
\* and isPlaying is true only while sourceNodeRef holds a source.
C38_PlaybackStateExclusion ==
    /\ ~(player.isPlaying /\ player.isPaused)
    /\ player.isPlaying => player.sourceNodeRef # "null"

\* the Pause button was pressed while a source played: the coordinator is
\* paused at a position, holds no source and is not playing
C38_Witness ==
    /\ playEvent.name = "handlePause"
    /\ player.isPaused /\ ~player.isPlaying
    /\ player.sourceNodeRef = "null" /\ player.pausedTimeRef > 0

-----------------------------------------------------------------------------
(* The callbacks of a transport that connect() has replaced *)

\* a callback of transport t runs; an error event is taken for one of t only
\* where the transport of the session could not have dispatched the same
EarlierCallback(t) ==
    \/ SignalingSettles(t)
    \/ ConnectionStateChange(t)
    \/ ConnectionClosedEvent(t)
    \/ DataChannelClose(t)
    \/ DataChannelError(t) /\ transports[hook.peerConnectionRef].readyState # "open"

\* C39: once connect() has created a new transport, no callback of an earlier
\* one changes isConnected, isConnecting, dataChannelRef or reconnectAttemptRef
\* or calls onError.
C39_CleanFreshConnect ==
    [][\A t \in TransportIds :
          hook.peerConnectionRef # None /\ t < hook.peerConnectionRef /\ EarlierCallback(t)
          => /\ hook'.isConnected = hook.isConnected
             /\ hook'.isConnecting = hook.isConnecting
             /\ hook'.dataChannelRef = hook.dataChannelRef
             /\ hook'.reconnectAttemptRef = hook.reconnectAttemptRef
             /\ onErrorCall' = NoError]_vars

-----------------------------------------------------------------------------
(* The registry where an identifier is offered again *)

\* the session the registry names for the identifier of session s is a later one
Replaced(s) == peerConnections[sess[s].connectionId] > s

\* an offer that creates a session registers it under its identifier
NewOfferRegistered ==
    [][Len(sess') > Len(sess)
       => peerConnections'[sess'[Len(sess')].connectionId] = Len(sess')]_vars

\* an entry is removed only by a handler of the session it names
RemovedByOwner ==
    [][\A id \in ConnIds :
          peerConnections[id] # 0 /\ peerConnections'[id] = 0
          => lastEvent'.s = peerConnections[id]]_vars

\* no replaced session has its pacing timer pending
NoUnreferencedTimer ==
    \A s \in SessionIds : Replaced(s) => ~sess[s].timerPending

\* C40: an offer with a registered identifier makes the entry name the new
\* session; afterwards no event of the replaced session removes that entry,
\* and the pacing timer of the replaced session is not left running.
C40_RegistryIsolation ==
    /\ NewOfferRegistered
    /\ RemovedByOwner
    /\ []NoUnreferencedTimer

====
